---- MODULE Spec2Model ----
(***************************************************************************)
(* lazyqmd: the terminal front-end of the qmd document indexer.            *)
(*                                                                         *)
(* The model follows src/src/app.ts (class App: the keyboard handler, the  *)
(* view switching, the collection management callbacks, the live preview   *)
(* server and file watcher), src/src/views/files.ts (SearchView,           *)
(* CollectionsView, ConfirmDeleteView), src/src/index.ts (DetailView,      *)
(* AddCollectionView), src/src/views/rename-collection.ts                  *)
(* (RenameCollectionView, DocumentView) and the qmd adapters of            *)
(* src/src/qmd-cli.ts and src/src/mcp-client.ts.                           *)
(*                                                                         *)
(* Every object of the program is one variable holding a record of its     *)
(* fields.  A method is an operator from the whole program state ("world") *)
(* to the world after the call, so that a handler's statements compose in  *)
(* the order the code runs them.  An async function is cut at its awaits:  *)
(* the part before the await runs in the action that calls it and leaves   *)
(* a record in `tasks`; the part after runs in the action that completes   *)
(* the awaited operation (with its result, or with its failure).           *)
(*                                                                         *)
(* Text is a sequence of characters.  Every printable key types the        *)
(* character "x", the space bar types " ".                                 *)
(*                                                                         *)
(* The widget toolkit (@opentui/core) is not part of the repository; its   *)
(* behaviour is taken from its documented contract: one renderable holds   *)
(* keyboard focus at a time; the global keypress listeners run before the  *)
(* focused renderable, which does not see a key whose default was          *)
(* prevented; a focused select moves on j/k and emits ITEM_SELECTED on     *)
(* Enter; a focused input inserts printable keys and emits ENTER on Enter; *)
(* assigning a select's options clamps its selected index.                 *)
(***************************************************************************)
EXTENDS Integers, Sequences, FiniteSets, TLC

---------------------------------------------------------------------------
(* Bounds of the model *)

\* Longest text an input holds.
MaxLen == 1
\* Most async operations in flight at once.
MaxTasks == 1
\* Most searches in flight at once where searches overlap.
MaxSearches == 2
\* Most saves of document files by the editor.
MaxSaves == 2
\* Most preview requests (presses of p that get past the guard).
MaxPreviews == 2
\* Most collections the qmd index holds.
MaxCollections == 2
\* Most segments of the path of a request for a static file.
MaxSegments == 2
\* Most calls of loadConfig.
MaxLoads == 3
\* Most lines of the output of `qmd collection list`.
MaxLines == 4

(* Program constants *)

\* setTimeout(..., 100) of the watcher callback, app.ts:552
DebounceMs == 100
\* setInterval(..., 500) of the preview page, app.ts:795
PollMs == 500
\* Time advances in steps of half the debounce delay.
Quantum == DebounceMs \div 2

---------------------------------------------------------------------------
(* Values *)

Undefined == <<"undefined">>
AllValue == <<"__all__">>
NoTimer == 0 - 1

\* The documents of the index: both live in the directory of collection "a".
Docs == {"n1", "n2"}
DocCollection(d) == <<"a">>
DocDir(d) == "dir-a"

\* Lists of search results the tool may answer with.
ResultLists == {<<>>, <<"n1">>, <<"n1", "n2">>}

\* The collections of the qmd index when the program starts.
InitialStore == << [name |-> <<"a">>, files |-> 2, path |-> TRUE] >>

ManagementStates == {"add-collection", "rename-collection", "delete-collection"}

\* Renderables that can hold keyboard focus, by their ids in the source.
SidebarWidgets == {"collections-select"}
Inputs == {"search-input", "add-path-input", "add-name-input",
           "add-pattern-input", "rename-new-input"}

VARIABLES
  app,                   \* App's own fields
  renderer,              \* CliRenderer: focus, main panel children, title, footer
  collectionsView,       \* CollectionsView
  detailView,            \* DetailView
  searchView,            \* SearchView
  documentView,          \* DocumentView
  addCollectionView,     \* AddCollectionView
  renameCollectionView,  \* RenameCollectionView
  confirmDeleteView,     \* ConfirmDeleteView
  tasks,                 \* async functions suspended at an await
  qmd,                   \* the external tool: its index, the commands started
  watch,                 \* the fs watchers' closures (watchedName, debounce)
  browser,               \* the preview pages open in the browser
  fs,                    \* the document files: how often each was saved
  obs                    \* observations: what became of every failure, the
                         \* bursts of change events, what the user asked for

vars == <<app, renderer, collectionsView, detailView, searchView, documentView,
          addCollectionView, renameCollectionView, confirmDeleteView, tasks,
          qmd, watch, browser, fs, obs>>

\* The whole program state as one record.
World ==
  [app |-> app, renderer |-> renderer, collectionsView |-> collectionsView,
   detailView |-> detailView, searchView |-> searchView,
   documentView |-> documentView, addCollectionView |-> addCollectionView,
   renameCollectionView |-> renameCollectionView,
   confirmDeleteView |-> confirmDeleteView, tasks |-> tasks, qmd |-> qmd,
   watch |-> watch, browser |-> browser, fs |-> fs, obs |-> obs]

---------------------------------------------------------------------------
(* Helpers *)

Min(a, b) == IF a < b THEN a ELSE b

\* String.prototype.trim: whitespace removed at both ends.
RECURSIVE TrimLeft(_)
TrimLeft(s) == IF s # <<>> /\ Head(s) = " " THEN TrimLeft(Tail(s)) ELSE s
RECURSIVE TrimRight(_)
TrimRight(s) ==
  IF s # <<>> /\ s[Len(s)] = " " THEN TrimRight(SubSeq(s, 1, Len(s) - 1)) ELSE s
Trim(s) == TrimRight(TrimLeft(s))

\* Array.prototype.find on collections by name: <<>> (undefined) or <<c>>.
RECURSIVE FindByName(_, _)
FindByName(cols, name) ==
  IF cols = <<>> THEN <<>>
  ELSE IF Head(cols).name = name THEN <<Head(cols)>>
  ELSE FindByName(Tail(cols), name)

\* collections.reduce((sum, c) => sum + c.files, 0)
RECURSIVE TotalFiles(_)
TotalFiles(cols) ==
  IF cols = <<>> THEN 0 ELSE Head(cols).files + TotalFiles(Tail(cols))

\* renderable.focus(): the renderer moves keyboard focus to the renderable.
Focus(w, id) == [w EXCEPT !.renderer.focused = id]

\* Assigning select.options: the selected index is clamped to the new list.
ClampIndex(i, n) == IF n = 0 THEN 0 ELSE Min(i, n - 1)

\* select.getSelectedOption(): <<>> (null) or <<option>>.
SelectedOption(options, i) ==
  IF i + 1 <= Len(options) THEN <<options[i + 1]>> ELSE <<>>

\* A select with wrapSelection moving down / up.
MoveDown(i, n) == IF n = 0 THEN i ELSE (i + 1) % n
MoveUp(i, n) == IF n = 0 THEN i ELSE (i + n - 1) % n

---------------------------------------------------------------------------
(* CollectionsView, src/src/views/files.ts:373-432 *)

GetSelectedCollection(w) ==
  LET opt == SelectedOption(w.collectionsView.options,
                            w.collectionsView.selectedIndex)
  IN IF opt = <<>> \/ opt[1].value = AllValue THEN <<>>
     ELSE FindByName(w.collectionsView.collections, opt[1].value)

CollectionOptions(cols) ==
  <<[value |-> AllValue, files |-> TotalFiles(cols)]>>
  \o [i \in 1..Len(cols) |-> [value |-> cols[i].name, files |-> cols[i].files]]

CollectionsUpdate(w, cols) ==
  [w EXCEPT !.collectionsView.collections = cols,
            !.collectionsView.options = CollectionOptions(cols),
            !.collectionsView.selectedIndex =
               ClampIndex(w.collectionsView.selectedIndex, Len(cols) + 1)]

---------------------------------------------------------------------------
(* DetailView, src/src/index.ts:41-118 *)

DetailShow(w, col) == [w EXCEPT !.detailView.shown = col.name]
DetailShowAll(w) == [w EXCEPT !.detailView.shown = AllValue]
DetailShowStatus(w, msg) == [w EXCEPT !.detailView.statusText = msg]
DetailClear(w) ==
  [w EXCEPT !.detailView.shown = <<>>, !.detailView.statusText = ""]

---------------------------------------------------------------------------
(* SearchView, src/src/views/files.ts:179-361 *)

SEARCH_MODES ==
  << [mode |-> "search", label |-> "Search"],
     [mode |-> "vsearch", label |-> "Vector"],
     [mode |-> "query", label |-> "Query"] >>

Mode(w) == SEARCH_MODES[w.searchView.modeIndex + 1].mode
ModeLabel(w) == SEARCH_MODES[w.searchView.modeIndex + 1].label
ScopeLabel(w) ==
  IF w.searchView.selectedCollection = Undefined THEN <<"All">>
  ELSE w.searchView.selectedCollection

MakeLabelContent(w) == [mode |-> ModeLabel(w), scope |-> ScopeLabel(w)]

\* A cycle that skips a mode: what (modeIndex + 2) would do.
CycleModeSkipping(w) ==
  LET w1 == [w EXCEPT !.searchView.modeIndex =
                        (w.searchView.modeIndex + 2) % Len(SEARCH_MODES)]
  IN [w1 EXCEPT !.searchView.label = MakeLabelContent(w1)]
CycleMode(w) ==
  LET w1 == [w EXCEPT !.searchView.modeIndex =
                        (w.searchView.modeIndex + 1) % Len(SEARCH_MODES)]
  IN [w1 EXCEPT !.searchView.label = MakeLabelContent(w1)]

SetCollection(w, name) ==
  LET w1 == [w EXCEPT !.searchView.selectedCollection = name]
  IN [w1 EXCEPT !.searchView.label = MakeLabelContent(w1)]

FocusInput(w) == Focus(w, "search-input")
FocusResults(w) == Focus(w, "search-results")

---------------------------------------------------------------------------
(* App: footer, view switching and navigation, src/src/app.ts *)

\* getFooterHelp(): what the footer says, by state (and, in the search
\* state, by the search mode and scope).
GetFooterHelp(w) ==
  IF w.app.state = "search"
    THEN [help |-> "search", mode |-> ModeLabel(w), scope |-> ScopeLabel(w)]
  ELSE IF w.app.state \in {"document"} \cup ManagementStates
    THEN [help |-> w.app.state, mode |-> "", scope |-> <<>>]
  ELSE [help |-> "default", mode |-> "", scope |-> <<>>]

UpdateFooter(w) == [w EXCEPT !.renderer.footer = GetFooterHelp(w)]

\* The container switchMainView adds for a target state.
ContainerOf(target) ==
  CASE target \in {"detail", "collections"} -> "detail-container"
    [] target = "search" -> "search-container"
    [] target = "document" -> "document-scroll"
    [] target = "add-collection" -> "add-collection-container"
    [] target = "rename-collection" -> "rename-collection-container"
    [] target = "delete-collection" -> "confirm-delete-container"

ManagementTitle(target) ==
  CASE target = "add-collection" -> "Add Collection"
    [] target = "rename-collection" -> "Rename Collection"
    [] target = "delete-collection" -> "Delete Collection"

\* switchMainView without the removal of the current children.
SwitchMainViewKeepingChildren(w, target) ==
  LET w2 == IF target # w.app.state
              THEN [w EXCEPT !.app.previousState = w.app.state]
              ELSE w
      w3 == [w2 EXCEPT !.app.state = target,
                       !.renderer.mainChildren = @ \cup {ContainerOf(target)}]
  IN IF target \in ManagementStates
       THEN [w3 EXCEPT !.renderer.mainTitle = ManagementTitle(target)]
       ELSE w3

SwitchMainView(w, target) ==
  LET w1 == [w EXCEPT !.renderer.mainChildren = {}]
      w2 == IF target # w1.app.state
              THEN [w1 EXCEPT !.app.previousState = w1.app.state]
              ELSE w1
      w3 == [w2 EXCEPT !.app.state = target,
                       !.renderer.mainChildren = @ \cup {ContainerOf(target)}]
  IN IF target \in ManagementStates
       THEN [w3 EXCEPT !.renderer.mainTitle = ManagementTitle(target)]
       ELSE w3

\* stopPreview(): the watcher is closed; its pending debounce timeout is not
\* cleared.
StopPreview(w) ==
  IF w.app.previewWatcher # 0 THEN [w EXCEPT !.app.previewWatcher = 0] ELSE w

Cleanup(w) ==
  LET w1 == StopPreview(w)
  IN IF w1.app.previewServer
       THEN [w1 EXCEPT !.app.previewServer = FALSE]
       ELSE w1

HandleTab(w) ==
  IF w.app.state = "search"
    THEN IF w.renderer.focused = "search-input"
           THEN FocusResults(w) ELSE FocusInput(w)
  ELSE IF w.app.focusArea = "sidebar"
    THEN LET w1 == [w EXCEPT !.app.focusArea = "main"]
         IN IF w1.app.state = "document"
              THEN Focus(w1, "document-scroll") ELSE w1
  ELSE Focus([w EXCEPT !.app.focusArea = "sidebar"], "collections-select")

ShowDetail(w, col) ==
  LET w1 == SwitchMainView(w, "detail")
      w2 == DetailShow(w1, col)
  IN [w2 EXCEPT !.renderer.mainTitle = "Collection"]

EnterSearch(w) ==
  LET w1 == SwitchMainView(w, "search")
      w2 == [w1 EXCEPT !.app.state = "search"]
      col == GetSelectedCollection(w2)
      w3 == SetCollection(w2, IF col = <<>> THEN Undefined ELSE col[1].name)
      w4 == FocusInput(w3)
      w5 == [w4 EXCEPT !.renderer.mainTitle = "Search"]
  IN UpdateFooter(w5)

\* leaveSearch without its call of collectionsView.select.focus().
LeaveSearchKeepingFocus(w) ==
  LET w1 == [w EXCEPT !.app.state = "detail"]
      w2 == SwitchMainView(w1, "detail")
      col == GetSelectedCollection(w2)
      w3 == IF col # <<>> THEN DetailShow(w2, col[1]) ELSE w2
      w4 == [w3 EXCEPT !.renderer.mainTitle = "Collection"]
      w6 == [w4 EXCEPT !.app.focusArea = "sidebar"]
  IN UpdateFooter(w6)
LeaveSearch(w) ==
  LET w1 == [w EXCEPT !.app.state = "detail"]
      w2 == SwitchMainView(w1, "detail")
      col == GetSelectedCollection(w2)
      w3 == IF col # <<>> THEN DetailShow(w2, col[1]) ELSE w2
      w4 == [w3 EXCEPT !.renderer.mainTitle = "Collection"]
      w5 == Focus(w4, "collections-select")
      w6 == [w5 EXCEPT !.app.focusArea = "sidebar"]
  IN UpdateFooter(w6)

\* leaveDocument without its call of stopPreview().
LeaveDocumentWatching(w) ==
  IF w.app.previousState = "search"
    THEN LET w2 == SwitchMainView(w, "search")
             w3 == [w2 EXCEPT !.app.state = "search",
                              !.renderer.mainTitle = "Search"]
         IN UpdateFooter(FocusResults(w3))
    ELSE LET w2 == SwitchMainView(w, "detail")
             w3 == [w2 EXCEPT !.app.state = "detail",
                              !.renderer.mainTitle = "Collection"]
             w4 == Focus(w3, "collections-select")
         IN UpdateFooter([w4 EXCEPT !.app.focusArea = "sidebar"])
LeaveDocument(w) ==
  LET w1 == StopPreview(w)
  IN IF w1.app.previousState = "search"
       THEN LET w2 == SwitchMainView(w1, "search")
                w3 == [w2 EXCEPT !.app.state = "search",
                                 !.renderer.mainTitle = "Search"]
            IN UpdateFooter(FocusResults(w3))
       ELSE LET w2 == SwitchMainView(w1, "detail")
                w3 == [w2 EXCEPT !.app.state = "detail",
                                 !.renderer.mainTitle = "Collection"]
                w4 == Focus(w3, "collections-select")
            IN UpdateFooter([w4 EXCEPT !.app.focusArea = "sidebar"])

HandleEscape(w) ==
  IF w.app.state = "document" THEN LeaveDocument(w)
  ELSE IF w.app.state = "search" THEN LeaveSearch(w)
  ELSE w

LeaveManagement(w) ==
  LET w1 == SwitchMainView(w, "detail")
      w2 == [w1 EXCEPT !.app.state = "detail"]
      col == GetSelectedCollection(w2)
      w3 == IF col # <<>> THEN DetailShow(w2, col[1]) ELSE w2
      w4 == [w3 EXCEPT !.renderer.mainTitle = "Collection"]
      w5 == Focus(w4, "collections-select")
      w6 == [w5 EXCEPT !.app.focusArea = "sidebar"]
  IN UpdateFooter(w6)

---------------------------------------------------------------------------
(* Async functions: the part that runs before the first await *)

\* A function suspended at an await.
StartTask(w, t) == [w EXCEPT !.tasks = Append(@, t)]

\* resolveQmdUri finds the collection of the uri in the array it was handed.
UriCollectionKnown(w, uri) ==
  LET col == FindByName(w.app.collections, DocCollection(uri))
  IN col # <<>> /\ col[1].path

\* DocumentView.load up to its await of mcp.getDocument,
\* src/src/views/rename-collection.ts:194-202
DocumentLoadBegin(w, file, title) ==
  [w EXCEPT !.documentView.currentFile = file,
            !.documentView.currentTitle = title,
            !.documentView.currentContent = "null",
            !.documentView.content = "*Loading...*"]

\* showDocument up to its await of documentView.load, app.ts:415-421.  For
\* the record: the state the document is opened from.
ShowDocument(w, file, title) ==
  LET w1 == SwitchMainView([w EXCEPT !.obs.openedFrom = w.app.state],
                           "document")
      w2 == [w1 EXCEPT !.app.state = "document",
                       !.renderer.mainTitle = title]
      w3 == UpdateFooter(Focus(w2, "document-scroll"))
      w4 == DocumentLoadBegin(w3, file, title)
  IN StartTask(w4, [kind |-> "load", file |-> file, title |-> title])

\* For the record, each call of performSearch in flight knows whether
\* performSearch has been called again since: the new call tells the
\* others.
Supersede(w) ==
  [w EXCEPT !.tasks =
     [i \in 1..Len(@) |->
        IF @[i].kind \in {"search", "status"}
          THEN [@[i] EXCEPT !.superseded = TRUE] ELSE @[i]]]

\* performSearch from the status check on, up to the await of the search,
\* files.ts:307-327.  The mode is read here, after the status check.
SearchBegin(w, query, superseded) ==
  LET msg == IF Mode(w) = "query" THEN "Querying (LLM)..." ELSE "Searching..."
      w1 == [w EXCEPT !.searchView.statusText = msg,
                      !.searchView.results = <<>>,
                      !.searchView.options = <<>>,
                      !.searchView.selectedIndex = 0]
  IN StartTask(w1, [kind |-> "search", cmd |-> Mode(w1), query |-> query,
                    collection |-> w1.searchView.selectedCollection,
                    superseded |-> superseded])

\* performSearch without the check of the embeddings.
PerformSearchUnchecked(w, query) ==
  IF Trim(query) = <<>> THEN w ELSE SearchBegin(Supersede(w), query, FALSE)

\* performSearch up to its first await, files.ts:295-305
PerformSearch(w, query) ==
  IF Trim(query) = <<>> THEN w
  ELSE IF Mode(w) \in {"vsearch", "query"}
    THEN StartTask(Supersede(w), [kind |-> "status", query |-> query,
                                  superseded |-> FALSE])
  ELSE SearchBegin(Supersede(w), query, FALSE)

\* runEmbed up to its await of embed(), app.ts:631-636
RunEmbed(w) ==
  LET w1 == [w EXCEPT !.renderer.mainTitle = "Embedding..."]
      w2 == DetailShowStatus(w1, "Creating embeddings, this may take a while...")
  IN StartTask(w2, [kind |-> "embed", prevTitle |-> w.renderer.mainTitle])

\* openInEditor up to its await of resolveQmdUri, app.ts:485-489
OpenInEditor(w) ==
  IF w.documentView.currentFile = "null" THEN w
  ELSE StartTask(w, [kind |-> "openInEditor",
                     uri |-> w.documentView.currentFile,
                     known |-> UriCollectionKnown(w, w.documentView.currentFile)])

\* openPreview up to its await of resolveQmdUri, app.ts:516-524
OpenPreview(w) ==
  IF w.documentView.currentFile = "null"
    THEN [w EXCEPT !.renderer.mainTitle = "Preview: no file"]
  ELSE StartTask(w, [kind |-> "openPreview",
                     uri |-> w.documentView.currentFile,
                     known |-> UriCollectionKnown(w, w.documentView.currentFile)])

---------------------------------------------------------------------------
(* The collection management callbacks wired in App's constructor,         *)
(* app.ts:171-204, up to their first await                                 *)

DefaultPattern == <<"**/*.md">>

OnAddComplete(w, path, name, pattern) ==
  LET w1 == [w EXCEPT !.addCollectionView.statusText = "Indexing..."]
  IN StartTask(w1, [kind |-> "add", path |-> path, name |-> name,
                    mask |-> IF pattern # DefaultPattern THEN pattern
                             ELSE Undefined])

OnRenameComplete(w, oldName, newName) ==
  LET w1 == [w EXCEPT !.renameCollectionView.statusText = "Renaming..."]
  IN StartTask(w1, [kind |-> "rename", oldName |-> oldName,
                    newName |-> newName])

OnDeleteConfirm(w, name) == StartTask(w, [kind |-> "remove", name |-> name])

---------------------------------------------------------------------------
(* AddCollectionView, src/src/index.ts:136-416 *)

AddInputIds == <<"add-path-input", "add-name-input", "add-pattern-input">>

\* The path a completion fills in: some non-empty text.
CompletedPath == <<"x">>

HideCompletions(w) ==
  LET w1 == IF w.addCollectionView.completionVisible
              THEN [w EXCEPT !.addCollectionView.completionVisible = FALSE]
              ELSE w
  IN [w1 EXCEPT !.addCollectionView.statusText = ""]

ShowCompletions(w) ==
  Focus([w EXCEPT !.addCollectionView.completionVisible = TRUE],
        "add-path-completion")

AddReset(w) ==
  HideCompletions([w EXCEPT !.addCollectionView.pathInput = <<>>,
                            !.addCollectionView.nameInput = <<>>,
                            !.addCollectionView.patternInput = <<>>,
                            !.addCollectionView.statusText = "",
                            !.addCollectionView.focusedField = 0])

AddFocusFirst(w) ==
  Focus([w EXCEPT !.addCollectionView.focusedField = 0], "add-path-input")

AddFocusNext(w) ==
  LET f == (w.addCollectionView.focusedField + 1) % 3
  IN Focus([w EXCEPT !.addCollectionView.focusedField = f], AddInputIds[f + 1])

\* completePath: what the directory listing makes of the typed path.
CompletionOutcomes == {"nothing", "no-matches", "completed", "several"}
CompletePath(w, outcome) ==
  IF w.addCollectionView.pathInput = <<>> THEN w
  ELSE CASE outcome = "nothing" -> w
         [] outcome = "no-matches" ->
              [w EXCEPT !.addCollectionView.statusText = "No matches."]
         [] outcome = "completed" ->
              [w EXCEPT !.addCollectionView.pathInput = CompletedPath,
                        !.addCollectionView.statusText = ""]
         [] outcome = "several" -> ShowCompletions(w)

AddHandleTab(w, outcome) ==
  IF w.addCollectionView.completionVisible
    THEN AddFocusNext(HideCompletions(w))
  ELSE IF w.addCollectionView.focusedField = 0
          /\ w.renderer.focused = "add-path-input"
    THEN CompletePath(w, outcome)
  ELSE AddFocusNext(w)

\* handleEscape: TRUE when the completions were dismissed.
AddEscapeDismisses(w) == w.addCollectionView.completionVisible
AddHandleEscape(w) ==
  IF w.addCollectionView.completionVisible
    THEN Focus(HideCompletions(w), "add-path-input")
    ELSE w

\* The completion select's ITEM_SELECTED handler.
CompletionSelected(w) ==
  Focus(HideCompletions([w EXCEPT !.addCollectionView.pathInput = CompletedPath]),
        "add-path-input")

\* submit() testing the fields as typed, without trimming them.
AddSubmitUntrimmed(w) ==
  LET path == w.addCollectionView.pathInput
      name == w.addCollectionView.nameInput
      pattern == IF w.addCollectionView.patternInput # <<>>
                   THEN w.addCollectionView.patternInput
                   ELSE DefaultPattern
  IN IF path = <<>>
       THEN Focus([w EXCEPT !.addCollectionView.statusText = "Path is required."],
                  "add-path-input")
     ELSE IF name = <<>>
       THEN Focus([w EXCEPT !.addCollectionView.statusText = "Name is required."],
                  "add-name-input")
     ELSE OnAddComplete(w, path, name, pattern)
AddSubmit(w) ==
  LET path == Trim(w.addCollectionView.pathInput)
      name == Trim(w.addCollectionView.nameInput)
      pattern == IF Trim(w.addCollectionView.patternInput) # <<>>
                   THEN Trim(w.addCollectionView.patternInput)
                   ELSE DefaultPattern
  IN IF path = <<>>
       THEN Focus([w EXCEPT !.addCollectionView.statusText = "Path is required."],
                  "add-path-input")
     ELSE IF name = <<>>
       THEN Focus([w EXCEPT !.addCollectionView.statusText = "Name is required."],
                  "add-name-input")
     ELSE OnAddComplete(w, path, name, pattern)

---------------------------------------------------------------------------
(* RenameCollectionView, src/src/views/rename-collection.ts:13-106 *)

RenameReset(w) ==
  [w EXCEPT !.renameCollectionView.currentCollection = <<>>,
            !.renameCollectionView.currentNameText = <<>>,
            !.renameCollectionView.newNameInput = <<>>,
            !.renameCollectionView.statusText = ""]

RenameShow(w, col) ==
  [w EXCEPT !.renameCollectionView.currentCollection = <<col>>,
            !.renameCollectionView.currentNameText = col.name,
            !.renameCollectionView.newNameInput = <<>>,
            !.renameCollectionView.statusText = ""]

RenameSubmit(w) ==
  LET newName == Trim(w.renameCollectionView.newNameInput)
  IN IF newName = <<>>
       THEN [w EXCEPT !.renameCollectionView.statusText = "Name is required."]
     ELSE IF w.renameCollectionView.currentCollection = <<>> THEN w
     ELSE OnRenameComplete(w, w.renameCollectionView.currentCollection[1].name,
                           newName)

---------------------------------------------------------------------------
(* ConfirmDeleteView, src/src/views/files.ts:447-511 *)

ConfirmOptions == <<"yes", "cancel">>

ConfirmShow(w, col) ==
  [w EXCEPT !.confirmDeleteView.currentCollection = <<col>>,
            !.confirmDeleteView.messageText = col.name]

---------------------------------------------------------------------------
(* App: entering the management views, app.ts:446-470 *)

EnterAddCollection(w) ==
  UpdateFooter(AddFocusFirst(SwitchMainView(AddReset(w), "add-collection")))

EnterRenameCollection(w) ==
  LET col == GetSelectedCollection(w)
  IN IF col = <<>> THEN w
     ELSE LET w1 == RenameShow(RenameReset(w), col[1])
              w2 == SwitchMainView(w1, "rename-collection")
          IN UpdateFooter(Focus(w2, "rename-new-input"))

\* enterDeleteCollection without its `if (!col) return`.
EnterDeleteCollectionUnguarded(w) ==
  LET col == GetSelectedCollection(w)
      w1 == IF col = <<>> THEN w ELSE ConfirmShow(w, col[1])
      w2 == SwitchMainView(w1, "delete-collection")
  IN UpdateFooter(Focus(w2, "confirm-delete-select"))
EnterDeleteCollection(w) ==
  LET col == GetSelectedCollection(w)
  IN IF col = <<>> THEN w
     ELSE LET w1 == ConfirmShow(w, col[1])
              w2 == SwitchMainView(w1, "delete-collection")
          IN UpdateFooter(Focus(w2, "confirm-delete-select"))

---------------------------------------------------------------------------
(* The handlers the views register on their widgets *)

\* SELECTION_CHANGED of the sidebar select, registered by start(),
\* app.ts:707-723
SelectionChanged(w) ==
  LET opt == SelectedOption(w.collectionsView.options,
                            w.collectionsView.selectedIndex)
  IN IF ~w.app.selectionHandler \/ opt = <<>> THEN w
     ELSE IF w.app.state \in {"detail", "collections"}
       THEN IF opt[1].value = AllValue
              THEN [DetailShowAll(w) EXCEPT !.renderer.mainTitle = "All Collections"]
            ELSE LET col == FindByName(w.app.collections, opt[1].value)
                 IN IF col # <<>>
                      THEN [DetailShow(w, col[1]) EXCEPT
                              !.renderer.mainTitle = "Collection"]
                      ELSE w
     ELSE w

\* ITEM_SELECTED of the sidebar select, files.ts:392-398, with the
\* onSelected handler of app.ts:162-164
CollectionsItemSelected(w) ==
  LET opt == SelectedOption(w.collectionsView.options,
                            w.collectionsView.selectedIndex)
      col == IF opt = <<>> THEN <<>>
             ELSE FindByName(w.collectionsView.collections, opt[1].value)
  IN IF col # <<>> THEN ShowDetail(w, col[1]) ELSE w

\* ITEM_SELECTED of the results list, files.ts:251-258, with the
\* onDocumentOpen handler of app.ts:166-168
ResultsItemSelected(w) ==
  LET opt == SelectedOption(w.searchView.options, w.searchView.selectedIndex)
  IN IF opt # <<>> THEN ShowDocument(w, opt[1], opt[1]) ELSE w

\* A handler that confirms whichever option is selected.
ConfirmItemSelectedAny(w) ==
  IF w.confirmDeleteView.currentCollection # <<>>
    THEN OnDeleteConfirm(w, w.confirmDeleteView.currentCollection[1].name)
    ELSE LeaveManagement(w)
\* ITEM_SELECTED of the confirmation select, files.ts:486-495
ConfirmItemSelected(w) ==
  LET opt == ConfirmOptions[w.confirmDeleteView.selectedIndex + 1]
  IN IF opt = "yes" /\ w.confirmDeleteView.currentCollection # <<>>
       THEN OnDeleteConfirm(w, w.confirmDeleteView.currentCollection[1].name)
       ELSE LeaveManagement(w)

\* The text an input holds.
InputValue(w, id) ==
  CASE id = "search-input" -> w.searchView.input
    [] id = "add-path-input" -> w.addCollectionView.pathInput
    [] id = "add-name-input" -> w.addCollectionView.nameInput
    [] id = "add-pattern-input" -> w.addCollectionView.patternInput
    [] id = "rename-new-input" -> w.renameCollectionView.newNameInput

SetInputValue(w, id, v) ==
  CASE id = "search-input" -> [w EXCEPT !.searchView.input = v]
    [] id = "add-path-input" -> [w EXCEPT !.addCollectionView.pathInput = v]
    [] id = "add-name-input" -> [w EXCEPT !.addCollectionView.nameInput = v]
    [] id = "add-pattern-input" -> [w EXCEPT !.addCollectionView.patternInput = v]
    [] id = "rename-new-input" -> [w EXCEPT !.renameCollectionView.newNameInput = v]

\* ENTER of an input: files.ts:247-249, index.ts:221-226,
\* rename-collection.ts:67-69
InputEnter(w, id) ==
  CASE id = "search-input" -> PerformSearch(w, w.searchView.input)
    [] id \in {"add-path-input", "add-name-input", "add-pattern-input"} ->
         IF w.addCollectionView.completionVisible THEN w ELSE AddSubmit(w)
    [] id = "rename-new-input" -> RenameSubmit(w)

PrintableKeys == {"q", "s", "/", "a", "d", "r", "e", "u", "p", "t", "j", "k",
                  "space"}
CharOf(key) == IF key = "space" THEN " " ELSE "x"

\* What the focused renderable does with a key the global handler let pass.
WidgetKey(w, key, ctrl) ==
  LET f == w.renderer.focused
  IN IF f \in Inputs
       THEN IF key = "return" THEN InputEnter(w, f)
            ELSE IF key = "backspace"
              THEN LET v == InputValue(w, f)
                   IN IF v = <<>> THEN w
                      ELSE SetInputValue(w, f, SubSeq(v, 1, Len(v) - 1))
            ELSE IF key \in PrintableKeys /\ ~ctrl
              THEN SetInputValue(w, f, Append(InputValue(w, f), CharOf(key)))
            ELSE w
     ELSE IF f = "collections-select"
       THEN LET n == Len(w.collectionsView.options)
                i == w.collectionsView.selectedIndex
            IN IF key = "j"
                 THEN SelectionChanged(
                        [w EXCEPT !.collectionsView.selectedIndex = MoveDown(i, n)])
               ELSE IF key = "k"
                 THEN SelectionChanged(
                        [w EXCEPT !.collectionsView.selectedIndex = MoveUp(i, n)])
               ELSE IF key = "return" THEN CollectionsItemSelected(w)
               ELSE w
     ELSE IF f = "search-results"
       THEN LET n == Len(w.searchView.options)
                i == w.searchView.selectedIndex
            IN IF key = "j"
                 THEN [w EXCEPT !.searchView.selectedIndex = MoveDown(i, n)]
               ELSE IF key = "k"
                 THEN [w EXCEPT !.searchView.selectedIndex = MoveUp(i, n)]
               ELSE IF key = "return" THEN ResultsItemSelected(w)
               ELSE w
     ELSE IF f = "confirm-delete-select"
       THEN LET i == w.confirmDeleteView.selectedIndex
            IN IF key = "j"
                 THEN [w EXCEPT !.confirmDeleteView.selectedIndex = MoveDown(i, 2)]
               ELSE IF key = "k"
                 THEN [w EXCEPT !.confirmDeleteView.selectedIndex = MoveUp(i, 2)]
               ELSE IF key = "return" THEN ConfirmItemSelected(w)
               ELSE w
     ELSE IF f = "add-path-completion"
       THEN IF key = "return" THEN CompletionSelected(w) ELSE w
     ELSE w

---------------------------------------------------------------------------
(* App.setupKeyboard: the global keypress listener, app.ts:235-353 *)

Handled(w) == [w |-> w, prevented |-> TRUE]
Passed(w) == [w |-> w, prevented |-> FALSE]

\* q that destroys the renderer without calling cleanup().
QuitWithoutCleanup(w) == [w EXCEPT !.renderer.destroyed = TRUE]
\* q: cleanup() and renderer.destroy()
Quit(w) == [Cleanup(w) EXCEPT !.renderer.destroyed = TRUE]

KeyHandler(w, key, ctrl, outcome) ==
  IF w.app.state = "search" /\ key = "t" /\ ctrl
    THEN Handled(UpdateFooter(CycleMode(w)))
  ELSE IF w.app.state = "search" /\ w.renderer.focused = "search-input"
    THEN IF key = "escape" THEN Handled(LeaveSearch(w))
         ELSE IF key = "tab" THEN Handled(FocusResults(w))
         ELSE Passed(w)
  ELSE IF w.app.state \in ManagementStates
    THEN IF key = "escape"
           THEN IF w.app.state = "add-collection" /\ AddEscapeDismisses(w)
                  THEN Handled(AddHandleEscape(w))
                  ELSE Handled(LeaveManagement(w))
         ELSE IF key = "tab" /\ w.app.state = "add-collection"
           THEN Handled(AddHandleTab(w, outcome))
         ELSE Passed(w)
  ELSE IF w.app.state = "document" /\ key = "e"
    THEN Handled(OpenInEditor(w))
  ELSE IF w.app.state = "document" /\ key = "p"
    THEN Handled(OpenPreview([w EXCEPT !.renderer.mainTitle = "Preview..."]))
  ELSE IF key = "q" /\ ~ctrl THEN Handled(Quit(w))
  ELSE IF key = "escape" THEN Handled(HandleEscape(w))
  ELSE IF key = "tab" THEN Handled(HandleTab(w))
  ELSE IF key \in {"/", "s"} THEN Handled(EnterSearch(w))
  ELSE IF w.app.focusArea = "sidebar" /\ key = "a"
    THEN Handled(EnterAddCollection(w))
  ELSE IF w.app.focusArea = "sidebar" /\ key = "d"
    THEN Handled(EnterDeleteCollection(w))
  ELSE IF w.app.focusArea = "sidebar" /\ key = "r"
    THEN Handled(EnterRenameCollection(w))
  ELSE IF w.app.focusArea = "sidebar" /\ key = "e"
    THEN Handled(RunEmbed(w))
  ELSE Passed(w)

\* The world after one key press: the global listener, then the focused
\* renderable unless the default was prevented.
AfterKey(w, key, ctrl, outcome) ==
  LET r == KeyHandler(w, key, ctrl, outcome)
  IN IF r.prevented THEN r.w ELSE WidgetKey(r.w, key, ctrl)

---------------------------------------------------------------------------
(* Async functions: the part that runs after an await *)

RemoveTask(w, i) ==
  [w EXCEPT !.tasks = SubSeq(@, 1, i - 1) \o SubSeq(@, i + 1, Len(@))]
ReplaceTask(w, i, t) == [w EXCEPT !.tasks[i] = t]

Names(cols) == {cols[j].name : j \in 1..Len(cols)}

\* refreshCollections that leaves the sidebar view as it is.
RefreshCollectionsOfAppOnly(w) == [w EXCEPT !.app.collections = w.qmd.store]

\* refreshCollections after its await of listCollections, app.ts:644-647
RefreshCollections(w) ==
  CollectionsUpdate([w EXCEPT !.app.collections = w.qmd.store], w.qmd.store)

\* start() after its await of listCollections, app.ts:689-724.  A failure
\* only clears the detail view.
StartDone(w, i, ok) ==
  LET w0 == RemoveTask(w, i)
      w1 == IF ok
              THEN [DetailShowAll(RefreshCollections(w0)) EXCEPT
                      !.renderer.mainTitle = "All Collections"]
              ELSE [DetailClear(w0) EXCEPT !.obs.swallowed = @ \cup {"start"}]
      w2 == Focus(w1, "collections-select")
  IN [w2 EXCEPT !.app.focusArea = "sidebar", !.app.selectionHandler = TRUE]

\* The three management callbacks after `await <command>`, app.ts:171-204:
\* on success they go on to await refreshCollections().
AddDone(w, i, ok) ==
  IF ok
    THEN ReplaceTask([w EXCEPT !.qmd.store =
                        Append(@, [name |-> w.tasks[i].name, files |-> 1,
                                   path |-> TRUE])],
                     i, [kind |-> "refresh", after |-> "add"])
    ELSE [RemoveTask(w, i) EXCEPT !.addCollectionView.statusText = "Error"]

RenameDone(w, i, ok) ==
  IF ok
    THEN ReplaceTask(
           [w EXCEPT !.qmd.store =
              [j \in 1..Len(@) |->
                 IF @[j].name = w.tasks[i].oldName
                   THEN [@[j] EXCEPT !.name = w.tasks[i].newName]
                   ELSE @[j]]],
           i, [kind |-> "refresh", after |-> "rename"])
    ELSE [RemoveTask(w, i) EXCEPT !.renameCollectionView.statusText = "Error"]

RECURSIVE WithoutName(_, _)
WithoutName(cols, name) ==
  IF cols = <<>> THEN <<>>
  ELSE IF Head(cols).name = name THEN WithoutName(Tail(cols), name)
  ELSE <<Head(cols)>> \o WithoutName(Tail(cols), name)

RemoveDone(w, i, ok) ==
  IF ok
    THEN ReplaceTask([w EXCEPT !.qmd.store = WithoutName(@, w.tasks[i].name)],
                     i, [kind |-> "refresh", after |-> "remove"])
    ELSE [RemoveTask(w, i) EXCEPT !.obs.swallowed = @ \cup {"remove"}]

\* ... and after `await this.refreshCollections()`: leaveManagement(),
\* whatever the state is by then.
RefreshDone(w, i, ok) ==
  LET after == w.tasks[i].after
      w0 == RemoveTask(w, i)
  IN IF ok THEN LeaveManagement(RefreshCollections(w0))
     ELSE CASE after = "add" ->
                 [w0 EXCEPT !.addCollectionView.statusText = "Error"]
            [] after = "rename" ->
                 [w0 EXCEPT !.renameCollectionView.statusText = "Error"]
            [] after = "remove" ->
                 [w0 EXCEPT !.obs.swallowed = @ \cup {"remove"}]

\* runEmbed after its await, app.ts:636-641
EmbedDone(w, i, ok) ==
  LET w0 == RemoveTask(w, i)
      w1 == DetailShowStatus(w0, IF ok THEN "Embeddings created." ELSE "Error")
  IN [w1 EXCEPT !.renderer.mainTitle = w.tasks[i].prevTitle]

\* performSearch after `await this.mcp.status()`, files.ts:300-305.  The
\* await is outside the try block: a failure rejects the promise of the
\* ENTER handler, which nobody awaits.
StatusDone(w, i, ok, blocked) ==
  LET w0 == RemoveTask(w, i)
  IN IF ~ok THEN [w0 EXCEPT !.obs.unhandled = @ \cup {"status"}]
     ELSE IF blocked
       THEN [w0 EXCEPT !.searchView.statusText = "No embeddings yet."]
     ELSE SearchBegin(w0, w.tasks[i].query, w.tasks[i].superseded)

\* performSearch after the await of the search, files.ts:319-343
SearchDone(w, i, ok, res) ==
  LET w0 == RemoveTask(w, i)
  IN IF ~ok THEN [w0 EXCEPT !.searchView.statusText = "Error"]
     ELSE LET w1 == [w0 EXCEPT !.searchView.results = res]
          IN IF Len(res) = 0
               THEN [w1 EXCEPT !.searchView.statusText = "No results found."]
               ELSE [w1 EXCEPT !.searchView.statusText = "results",
                               !.searchView.options = res,
                               !.searchView.selectedIndex =
                                  ClampIndex(@, Len(res))]

\* The documents of the index that carry a title in their frontmatter, and
\* the title it gives them.
HasFrontmatter(d) == d = "n1"
FrontmatterTitle(d) == IF d = "n1" THEN "N1" ELSE "N2"

\* DocumentView.load after its await (rename-collection.ts:202-221), then
\* showDocument after its await (app.ts:422-426)
LoadDone(w, i, ok, fm) ==
  LET t == w.tasks[i]
      w0 == RemoveTask(w, i)
      w1 == IF ~ok THEN [w0 EXCEPT !.documentView.content = "**Error:**"]
            ELSE [w0 EXCEPT !.documentView.currentContent = t.file,
                            !.documentView.currentTitle =
                               IF fm THEN FrontmatterTitle(t.file) ELSE @,
                            !.documentView.content = t.file]
      fmTitle == w1.documentView.currentTitle
  IN IF fmTitle # "null" /\ fmTitle # t.title
       THEN [w1 EXCEPT !.renderer.mainTitle = fmTitle]
       ELSE w1

\* openInEditor after its await, and spawnEditor up to its await,
\* app.ts:489-510
OpenInEditorDone(w, i, found) ==
  IF w.tasks[i].known /\ found
    THEN ReplaceTask([w EXCEPT !.renderer.suspended = TRUE], i,
                     [kind |-> "editor"])
    ELSE RemoveTask(w, i)

\* spawnEditor after the editor exits, app.ts:511-513
EditorExit(w, i) == [RemoveTask(w, i) EXCEPT !.renderer.suspended = FALSE]

\* A server started by every call, whether one is running or not.
EnsurePreviewServerAnew(w) ==
  [w EXCEPT !.app.previewServer = TRUE, !.obs.serversStarted = @ + 1]
\* ensurePreviewServer, app.ts:567-614.  For the record: how many servers
\* Bun.serve has started.
EnsurePreviewServer(w) ==
  IF w.app.previewServer THEN w
  ELSE [w EXCEPT !.app.previewServer = TRUE, !.obs.serversStarted = @ + 1]

NewPage == [file |-> "loading", content |-> 0, lastVersion |-> NoTimer,
            poll |-> PollMs]

\* openPreview after its await of resolveQmdUri, app.ts:524-565
ResolveOutcomes == {"found", "missing", "throws"}
OpenPreviewDone(w, i, outcome, chrome) ==
  LET t == w.tasks[i]
      w0 == RemoveTask(w, i)
  IN IF outcome = "throws"
       THEN [w0 EXCEPT !.renderer.mainTitle = "Preview error"]
     ELSE IF ~t.known \/ outcome = "missing"
       THEN [w0 EXCEPT !.renderer.mainTitle = "Preview: file not found"]
     ELSE LET w1 == StopPreview(w0)
              w2 == [w1 EXCEPT !.app.previewFilePath = t.uri,
                               !.app.previewBaseDir = DocDir(t.uri)]
              w3 == EnsurePreviewServer(w2)
              w4 == [w3 EXCEPT !.watch = Append(@, [watchedName |-> t.uri,
                                                    debounce |-> NoTimer]),
                               !.app.previewWatcher = Len(w3.watch) + 1]
          IN IF chrome
               THEN [w4 EXCEPT !.browser = Append(@, NewPage),
                               !.renderer.mainTitle =
                                  IF w4.documentView.currentTitle # "null"
                                    THEN w4.documentView.currentTitle
                                    ELSE "Preview"]
               ELSE [w4 EXCEPT !.renderer.mainTitle = "Preview error"]

---------------------------------------------------------------------------
(* The file watcher's callback and its debounce timeout, app.ts:545-553 *)

\* if (filename && filename !== watchedName) return;
\* if (debounce) clearTimeout(debounce); debounce = setTimeout(..., 100)
WatcherCallback(w, k, filename) ==
  IF filename # w.watch[k].watchedName THEN w
  ELSE [w EXCEPT !.watch[k].debounce = DebounceMs]

\* The timeout's callback: this.previewVersion++
DebounceFired(w, k) ==
  [w EXCEPT !.app.previewVersion = @ + 1, !.watch[k].debounce = NoTimer]

\* Timeouts that are pending, and those that are due now.
PendingTimers(w) == {k \in 1..Len(w.watch) : w.watch[k].debounce # NoTimer}
DueTimers(w) == {k \in 1..Len(w.watch) : w.watch[k].debounce = 0}

---------------------------------------------------------------------------
(* The preview server's routes and the page's polling script,              *)
(* app.ts:573-610 and 786-796                                              *)

\* GET /: the page shows the file that is the preview target now.
PageLoaded(w, i) ==
  IF ~w.app.previewServer \/ w.app.previewFilePath = "null"
    THEN [w EXCEPT !.browser[i].file = "unreachable"]
    ELSE [w EXCEPT !.browser[i] =
            [file |-> w.app.previewFilePath,
             content |-> w.fs.saves[w.app.previewFilePath],
             lastVersion |-> NoTimer, poll |-> PollMs]]

\* One run of the interval callback: fetch('/version'), compare, reload.
PagePolled(w, i) ==
  IF ~w.app.previewServer THEN [w EXCEPT !.browser[i].poll = PollMs]
  ELSE IF w.browser[i].lastVersion # NoTimer
          /\ w.app.previewVersion # w.browser[i].lastVersion
    THEN PageLoaded(w, i)
  ELSE [w EXCEPT !.browser[i].lastVersion = w.app.previewVersion,
                 !.browser[i].poll = PollMs]

---------------------------------------------------------------------------
(* The preview server's static files, app.ts:574 and 599-609 *)

\* The path of a request as the client sends it: segments separated by "/",
\* each segment one or two names separated by an encoded slash ("%2F").  A
\* name is a file name, "..", or ".." percent-encoded.
PathNames == {"img", "..", "%2e%2e"}
RawSegments == {<<a>> : a \in PathNames} \cup (PathNames \X PathNames)
RequestPaths ==
  UNION {[1..n -> RawSegments] : n \in 1..MaxSegments}

\* new URL(req.url).pathname: the URL parser drops a segment that is ".."
\* (plain or percent-encoded) together with the segment before it, and
\* leaves every other segment as it is, encoded slashes included.
IsDoubleDot(seg) == Len(seg) = 1 /\ seg[1] \in {"..", "%2e%2e"}
RECURSIVE RemoveDotSegments(_, _)
RemoveDotSegments(rest, out) ==
  IF rest = <<>> THEN out
  ELSE IF IsDoubleDot(Head(rest))
    THEN RemoveDotSegments(Tail(rest), IF out = <<>> THEN out
                                       ELSE SubSeq(out, 1, Len(out) - 1))
  ELSE RemoveDotSegments(Tail(rest), Append(out, Head(rest)))
UrlPathname(raw) == RemoveDotSegments(raw, <<>>)

\* decodeURIComponent: "%2e%2e" becomes "..", "%2F" becomes a separator.
RECURSIVE DecodeURIComponent(_)
DecodeURIComponent(pathname) ==
  IF pathname = <<>> THEN <<>>
  ELSE [i \in 1..Len(Head(pathname)) |->
          IF Head(pathname)[i] = "%2e%2e" THEN ".." ELSE Head(pathname)[i]]
       \o DecodeURIComponent(Tail(pathname))

\* path.join: the parts concatenated, then normalised (".." removes the
\* name before it).
RECURSIVE NormalizePath(_, _)
NormalizePath(rest, out) ==
  IF rest = <<>> THEN out
  ELSE IF Head(rest) = ".."
    THEN NormalizePath(Tail(rest), IF out = <<>> THEN out
                                   ELSE SubSeq(out, 1, Len(out) - 1))
  ELSE NormalizePath(Tail(rest), Append(out, Head(rest)))
JoinPath(base, reqPath) == NormalizePath(base \o reqPath, <<>>)

\* The directory of the documents on disk, and the files there are: the
\* documents and an image in that directory, and an image next to it.
DirPath(dir) == <<"home", dir>>
DiskFiles ==
  {<<"home", "dir-a", "n1">>, <<"home", "dir-a", "n2">>,
   <<"home", "dir-a", "img">>, <<"home", "img">>}

\* The fetch handler for a path that is neither "/version" nor "/".
ServeStatic(w, raw) ==
  LET reqPath == DecodeURIComponent(UrlPathname(raw))
      filePath == JoinPath(DirPath(w.app.previewBaseDir), reqPath)
  IN IF w.app.previewBaseDir # "null" /\ filePath \in DiskFiles
       THEN [path |-> raw, status |-> 200, file |-> filePath]
       ELSE [path |-> raw, status |-> 404, file |-> <<>>]

LivePages(w) == {i \in 1..Len(w.browser) : w.browser[i].file \in Docs}
DuePolls(w) == {i \in LivePages(w) : w.browser[i].poll = 0}

\* Time passing by one quantum.
Elapse(w) ==
  [w EXCEPT
     !.watch = [k \in 1..Len(@) |->
                  IF @[k].debounce > 0
                    THEN [@[k] EXCEPT !.debounce = @ - Quantum] ELSE @[k]],
     !.browser = [i \in 1..Len(@) |->
                    IF @[i].file \in Docs
                      THEN [@[i] EXCEPT !.poll = @ - Quantum] ELSE @[i]],
     !.obs.sinceEvent = Min(@ + Quantum, DebounceMs)]

SavesTotal(w) == w.fs.saves["n1"] + w.fs.saves["n2"]

\* The editor saves document d: the file changes and the open watcher (if
\* any) gets a change event naming it.  A change event for the watched file
\* at least DebounceMs after the previous one starts a new burst.
FileSaved(w, d) ==
  LET w1 == [w EXCEPT !.fs.saves[d] = @ + 1]
      k == w1.app.previewWatcher
  IN IF k = 0 THEN w1
     ELSE LET w2 == WatcherCallback(w1, k, d)
          IN IF d # w1.watch[k].watchedName THEN w2
             ELSE [w2 EXCEPT !.obs.bursts =
                               IF w.obs.sinceEvent >= DebounceMs THEN @ + 1 ELSE @,
                             !.obs.sinceEvent = 0]

---------------------------------------------------------------------------
(* listCollections, src/src/qmd-cli.ts:47-77 *)

\* The output of `qmd collection list` as its lines; a line is indented or
\* not and holds words separated by blanks.  A word is plain text, a number
\* or a "(qmd://<id>/)".
Word(text) == [kind |-> "word", text |-> text, n |-> 0]
Number(n) == [kind |-> "num", text |-> "digits", n |-> n]
UriWord(id) == [kind |-> "uri", text |-> id, n |-> 0]
Line(indent, words) == [indent |-> indent, words |-> words]

CollectionNames == {"a", "b"}
OutputLines ==
  {Line(FALSE, <<Word("Collections"), Word("(2):")>>),
   Line(FALSE, <<>>),
   Line(TRUE, <<Word("Pattern:"), Word("*.txt")>>),
   Line(TRUE, <<Word("Files:"), Number(3)>>),
   Line(TRUE, <<Word("Updated:"), Word("2d"), Word("ago")>>)}
  \cup {Line(FALSE, <<Word(c), UriWord(c)>>) : c \in CollectionNames}
Outputs == UNION {[1..n -> OutputLines] : n \in 0..MaxLines}

\* The qmd config (index.yml): the collections it has an entry for, each
\* with its path.
PathOf == [a |-> "/notes/a", b |-> "/notes/b"]
QmdConfigs == {[c \in cs |-> PathOf[c]] : cs \in SUBSET CollectionNames}

\* A split at every newline, whatever follows it.
RECURSIVE SplitAtEveryLine(_)
SplitAtEveryLine(lines) ==
  IF lines = <<>> THEN <<>>
  ELSE <<<<Head(lines)>>>> \o SplitAtEveryLine(Tail(lines))
\* output.split(/\n(?=\S)/): a block ends before every later line that
\* starts with a character that is not white space.
RECURSIVE SplitBlocks(_)
SplitBlocks(lines) ==
  IF lines = <<>> THEN <<>>
  ELSE LET before == SplitBlocks(SubSeq(lines, 1, Len(lines) - 1))
           last == lines[Len(lines)]
       IN IF before = <<>> \/ (~last.indent /\ last.words # <<>>)
            THEN Append(before, <<last>>)
            ELSE [before EXCEPT ![Len(before)] = Append(@, last)]

\* The words of a block in order, each with the number of its line: what
\* the regular expressions see between stretches of white space.
RECURSIVE BlockWords(_, _)
BlockWords(block, from) ==
  IF from > Len(block) THEN <<>>
  ELSE [i \in 1..Len(block[from].words) |->
          [word |-> block[from].words[i], line |-> from]]
       \o BlockWords(block, from + 1)

\* block.match(/^(\S+)\s+\(qmd:\/\/(\S+?)\/?\)/): the block starts with a
\* word, and the word after it is a "(qmd://...)".
HeaderMatch(block) ==
  LET ws == BlockWords(block, 1)
  IN /\ ~block[1].indent
     /\ block[1].words # <<>>
     /\ Len(ws) >= 2
     /\ ws[2].word.kind = "uri"

\* block.match(/<label>\s+(.+)/) and block.match(/Files:\s+(\d+)/): the
\* first place where the label is followed by a word (a number); the group
\* is the rest of that word's line (the number).  0 when there is none.
LabelMatch(ws, label, digits) ==
  LET ps == {p \in 1..(Len(ws) - 1) :
               /\ ws[p].word.text = label
               /\ digits => ws[p + 1].word.kind = "num"}
  IN IF ps = {} THEN 0 ELSE CHOOSE p \in ps : \A q \in ps : p <= q
RestOfLine(ws, q) ==
  LET rest == {r \in q..Len(ws) : ws[r].line = ws[q].line}
  IN [i \in 1..Cardinality(rest) |-> ws[q + i - 1].word.text]

\* The Collection pushed for a block whose header matched.
CollectionOf(block, config) ==
  LET ws == BlockWords(block, 1)
      name == ws[1].word.text
      p == LabelMatch(ws, "Pattern:", FALSE)
      f == LabelMatch(ws, "Files:", TRUE)
      u == LabelMatch(ws, "Updated:", FALSE)
  IN [name |-> name,
      uri |-> ws[2].word.text,
      path |-> IF name \in DOMAIN config THEN config[name] ELSE "",
      pattern |-> IF p # 0 THEN RestOfLine(ws, p + 1) ELSE <<"**/*.md">>,
      files |-> IF f # 0 THEN ws[f + 1].word.n ELSE 0,
      updated |-> IF u # 0 THEN RestOfLine(ws, u + 1) ELSE <<"unknown">>]

RECURSIVE CollectBlocks(_, _)
CollectBlocks(blocks, config) ==
  IF blocks = <<>> THEN <<>>
  ELSE (IF HeaderMatch(Head(blocks))
          THEN <<CollectionOf(Head(blocks), config)>> ELSE <<>>)
       \o CollectBlocks(Tail(blocks), config)

ListCollections(output, config) == CollectBlocks(SplitBlocks(output), config)

---------------------------------------------------------------------------
(* loadConfig, src/unnamed/part_000 (config.ts) *)

\* const DEFAULT_CONFIG: Config = { mcpPort: 8181 }
DEFAULT_CONFIG == [mcpPort |-> 8181]

\* The keys an options file may hold and the values it may give them.  An
\* object is a function from its keys to their values.
ConfigKeys == {"mcpPort", "theme"}
ConfigValues == {8181, 9000, 0, 1}
ConfigObjects == UNION {[ks -> ConfigValues] : ks \in SUBSET ConfigKeys}

\* JSON text as its tokens.
Token(t, k, v) == [t |-> t, k |-> k, v |-> v]
LBrace == Token("{", "", 0)
RBrace == Token("}", "", 0)
Newline == Token("nl", "", 0)
NullLiteral == Token("null", "", 0)

\* JSON.stringify(obj, null, 2): the members in the order of the keys.
KeyOrder == <<"mcpPort", "theme">>
RECURSIVE Members(_, _)
Members(obj, keys) ==
  IF keys = <<>> THEN <<>>
  ELSE (IF Head(keys) \in DOMAIN obj
          THEN <<Token("member", Head(keys), obj[Head(keys)])>> ELSE <<>>)
       \o Members(obj, Tail(keys))
JsonStringify(obj) == <<LBrace>> \o Members(obj, KeyOrder) \o <<RBrace>>

\* {...a, ...b}: the keys of both, b's value where both have the key.
Spread(a, b) ==
  [k \in (DOMAIN a) \cup (DOMAIN b) |-> IF k \in DOMAIN b THEN b[k] ELSE a[k]]

\* file.json(): the value of the text, or a SyntaxError.  `null` parses,
\* and spreads as nothing.
RECURSIVE ObjectOf(_)
ObjectOf(members) ==
  IF members = <<>> THEN <<>>
  ELSE Spread(ObjectOf(SubSeq(members, 1, Len(members) - 1)),
              [k \in {members[Len(members)].k} |-> members[Len(members)].v])
RECURSIVE StripNewlines(_)
StripNewlines(text) ==
  IF text # <<>> /\ text[Len(text)] = Newline
    THEN StripNewlines(SubSeq(text, 1, Len(text) - 1)) ELSE text
ParseJson(text) ==
  LET body == StripNewlines(text)
  IN IF body = <<NullLiteral>> THEN [ok |-> TRUE, value |-> <<>>]
     ELSE IF /\ Len(body) >= 2
             /\ body[1] = LBrace
             /\ body[Len(body)] = RBrace
             /\ \A i \in 2..(Len(body) - 1) : body[i].t = "member"
       THEN [ok |-> TRUE, value |-> ObjectOf(SubSeq(body, 2, Len(body) - 1))]
     ELSE [ok |-> FALSE, value |-> <<>>]

\* The options file: absent, or present with a text.
AbsentFile == [exists |-> FALSE, text |-> <<>>]
FileWith(text) == [exists |-> TRUE, text |-> text]

\* What loadConfig returns and what it leaves on disk.
ConfigLoaded(file, threw, config) ==
  [threw |-> threw, config |-> config, after |-> file]

\* A loadConfig with the spread the other way round: {...raw, ...DEFAULT}.
LoadConfigDefaultsFirst(file) ==
  IF file.exists
    THEN LET raw == ParseJson(file.text)
         IN IF raw.ok
              THEN ConfigLoaded(file, FALSE, Spread(raw.value, DEFAULT_CONFIG))
              ELSE ConfigLoaded(file, TRUE, <<>>)
    ELSE ConfigLoaded(FileWith(JsonStringify(DEFAULT_CONFIG) \o <<Newline>>),
                      FALSE, DEFAULT_CONFIG)
LoadConfig(file) ==
  IF file.exists
    THEN LET raw == ParseJson(file.text)
         IN IF raw.ok
              THEN ConfigLoaded(file, FALSE, Spread(DEFAULT_CONFIG, raw.value))
              ELSE ConfigLoaded(file, TRUE, <<>>)
    ELSE ConfigLoaded(FileWith(JsonStringify(DEFAULT_CONFIG) \o <<Newline>>),
                      FALSE, DEFAULT_CONFIG)

\* The options files there may be when the program starts: none, an object
\* (with or without a final newline), `null`, a text cut short.
OptionFiles ==
  {AbsentFile, FileWith(<<NullLiteral>>), FileWith(<<LBrace>>)}
  \cup {FileWith(JsonStringify(o)) : o \in ConfigObjects}
  \cup {FileWith(JsonStringify(o) \o <<Newline>>) : o \in ConfigObjects}

---------------------------------------------------------------------------
(* The state after construction: index.ts has called app.start(), which is *)
(* suspended at its await of listCollections()                             *)

Constructed ==
  [app |-> [state |-> "collections", previousState |-> "detail",
            focusArea |-> "sidebar", collections |-> <<>>,
            previewServer |-> FALSE, previewWatcher |-> 0,
            previewVersion |-> 0, previewFilePath |-> "null",
            previewBaseDir |-> "null", selectionHandler |-> FALSE],
   renderer |-> [focused |-> "none", mainChildren |-> {"detail-container"},
                 mainTitle |-> "Collection",
                 footer |-> [help |-> "default", mode |-> "", scope |-> <<>>],
                 destroyed |-> FALSE, suspended |-> FALSE],
   collectionsView |-> [collections |-> <<>>, options |-> <<>>,
                        selectedIndex |-> 0],
   detailView |-> [shown |-> <<>>, statusText |-> ""],
   searchView |-> [modeIndex |-> 0, selectedCollection |-> Undefined,
                   input |-> <<>>, results |-> <<>>, options |-> <<>>,
                   selectedIndex |-> 0, statusText |-> "",
                   label |-> [mode |-> "Search", scope |-> <<"All">>]],
   documentView |-> [currentFile |-> "null", currentTitle |-> "null",
                     currentContent |-> "null", content |-> ""],
   addCollectionView |-> [pathInput |-> <<>>, nameInput |-> <<>>,
                          patternInput |-> <<>>, statusText |-> "",
                          focusedField |-> 0, completionVisible |-> FALSE],
   renameCollectionView |-> [currentCollection |-> <<>>,
                             currentNameText |-> <<>>,
                             newNameInput |-> <<>>, statusText |-> ""],
   confirmDeleteView |-> [currentCollection |-> <<>>, messageText |-> <<>>,
                          selectedIndex |-> 0],
   tasks |-> <<[kind |-> "start"]>>,
   qmd |-> [store |-> InitialStore, output |-> <<>>, config |-> PathOf],
   watch |-> <<>>,
   browser |-> <<>>,
   fs |-> [saves |-> [d \in Docs |-> 0],
           options |-> FileWith(JsonStringify(DEFAULT_CONFIG) \o <<Newline>>)],
   obs |-> [swallowed |-> {}, unhandled |-> {}, bursts |-> 0,
            sinceEvent |-> DebounceMs, updateAsked |-> FALSE,
            openedFrom |-> "none", serversStarted |-> 0,
            configLoads |-> <<>>, listed |-> <<>>, taskLimit |-> MaxTasks,
            response |-> [path |-> <<>>, status |-> 0, file |-> <<>>]]]

\* The program is in state w.
StartsAs(w) ==
  /\ app = w.app
  /\ renderer = w.renderer
  /\ collectionsView = w.collectionsView
  /\ detailView = w.detailView
  /\ searchView = w.searchView
  /\ documentView = w.documentView
  /\ addCollectionView = w.addCollectionView
  /\ renameCollectionView = w.renameCollectionView
  /\ confirmDeleteView = w.confirmDeleteView
  /\ tasks = w.tasks
  /\ qmd = w.qmd
  /\ watch = w.watch
  /\ browser = w.browser
  /\ fs = w.fs
  /\ obs = w.obs

Init == StartsAs(Constructed)

\* The state once start() has listed the collections.
Started == StartDone(Constructed, 1, TRUE)

\* The state with document n1 open, step by step: the user has entered the
\* search, typed a query, run it, moved to the results and opened the first
\* one, and every awaited operation has completed.
SearchEntered == AfterKey(Started, "/", FALSE, "nothing")
QueryTyped == AfterKey(SearchEntered, "s", FALSE, "nothing")
SearchRunning == AfterKey(QueryTyped, "return", FALSE, "nothing")
ResultsListed == SearchDone(SearchRunning, 1, TRUE, <<"n1", "n2">>)
ResultsFocused == AfterKey(ResultsListed, "tab", FALSE, "nothing")
DocumentLoading == AfterKey(ResultsFocused, "return", FALSE, "nothing")
DocumentOpened == LoadDone(DocumentLoading, 1, TRUE, HasFrontmatter("n1"))

InitDocument == StartsAs(DocumentOpened)

\* The state with some options file on disk, for the calls of loadConfig.
InitConfig ==
  \E file \in OptionFiles : StartsAs([Constructed EXCEPT !.fs.options = file])

\* The state with some output of `qmd collection list` and some qmd config,
\* for the call of listCollections.
InitList ==
  \E output \in Outputs, config \in QmdConfigs :
    StartsAs([Constructed EXCEPT !.qmd.output = output,
                                 !.qmd.config = config])

\* The state with a query typed in the search, for searches that overlap:
\* up to MaxSearches calls of performSearch are in flight at once.
InitOverlap == StartsAs([QueryTyped EXCEPT !.obs.taskLimit = MaxSearches])

\* The bounds of the model.
PreviewCount(w) ==
  Len(w.watch) + Cardinality({i \in 1..Len(w.tasks) :
                                w.tasks[i].kind = "openPreview"})
WithinBounds(w) ==
  /\ Len(w.tasks) <= w.obs.taskLimit
  /\ \A id \in Inputs : Len(InputValue(w, id)) <= MaxLen
  /\ Len(w.qmd.store) <= MaxCollections
  /\ PreviewCount(w) <= MaxPreviews
  /\ SavesTotal(w) <= MaxSaves
  /\ Len(w.obs.configLoads) <= MaxLoads

\* The step to world w.
Commit(w) ==
  /\ WithinBounds(w)
  /\ app' = w.app
  /\ renderer' = w.renderer
  /\ collectionsView' = w.collectionsView
  /\ detailView' = w.detailView
  /\ searchView' = w.searchView
  /\ documentView' = w.documentView
  /\ addCollectionView' = w.addCollectionView
  /\ renameCollectionView' = w.renameCollectionView
  /\ confirmDeleteView' = w.confirmDeleteView
  /\ tasks' = w.tasks
  /\ qmd' = w.qmd
  /\ watch' = w.watch
  /\ browser' = w.browser
  /\ fs' = w.fs
  /\ obs' = w.obs

---------------------------------------------------------------------------
(* Actions: key presses *)

\* For the record: the user has pressed u with the sidebar list focused.
Observe(w, key, ctrl) ==
  IF key = "u" /\ ~ctrl /\ w.renderer.focused = "collections-select"
    THEN [w EXCEPT !.obs.updateAsked = TRUE]
    ELSE w

\* One keypress event delivered by the renderer (none once it is destroyed,
\* nor while it is suspended for the editor).
KeysDelivered == ~renderer.destroyed /\ ~renderer.suspended

\* The world after the key: the record of it, then the handlers.
Keypress(key, ctrl, outcome) ==
  AfterKey(Observe(World, key, ctrl), key, ctrl, outcome)

\* Tab is the one key whose effect depends on the file system (the path
\* completion of the add form).
KeyTab ==
  \E outcome \in CompletionOutcomes :
    KeysDelivered /\ Commit(Keypress("tab", FALSE, outcome))
KeyCtrlT == KeysDelivered /\ Commit(Keypress("t", TRUE, "nothing"))
KeyQ == KeysDelivered /\ Commit(Keypress("q", FALSE, "nothing"))
KeyEscape == KeysDelivered /\ Commit(Keypress("escape", FALSE, "nothing"))
KeySlash == KeysDelivered /\ Commit(Keypress("/", FALSE, "nothing"))
KeyS == KeysDelivered /\ Commit(Keypress("s", FALSE, "nothing"))
KeyA == KeysDelivered /\ Commit(Keypress("a", FALSE, "nothing"))
KeyD == KeysDelivered /\ Commit(Keypress("d", FALSE, "nothing"))
KeyR == KeysDelivered /\ Commit(Keypress("r", FALSE, "nothing"))
KeyE == KeysDelivered /\ Commit(Keypress("e", FALSE, "nothing"))
KeyU == KeysDelivered /\ Commit(Keypress("u", FALSE, "nothing"))
KeyP == KeysDelivered /\ Commit(Keypress("p", FALSE, "nothing"))
KeyJ == KeysDelivered /\ Commit(Keypress("j", FALSE, "nothing"))
KeyK == KeysDelivered /\ Commit(Keypress("k", FALSE, "nothing"))
KeyReturn == KeysDelivered /\ Commit(Keypress("return", FALSE, "nothing"))
KeySpace == KeysDelivered /\ Commit(Keypress("space", FALSE, "nothing"))
KeyBackspace == KeysDelivered /\ Commit(Keypress("backspace", FALSE, "nothing"))

(* Actions: awaited operations completing *)

TasksOf(kind) == {i \in 1..Len(tasks) : tasks[i].kind = kind}

StartCompletes ==
  \E i \in TasksOf("start") : Commit(StartDone(World, i, TRUE))

AddCompletes ==
  \E i \in TasksOf("add") :
    /\ tasks[i].name \notin Names(qmd.store)
    /\ Commit(AddDone(World, i, TRUE))

RenameCompletes ==
  \E i \in TasksOf("rename") :
    /\ tasks[i].oldName \in Names(qmd.store)
    /\ tasks[i].newName \notin Names(qmd.store)
    /\ Commit(RenameDone(World, i, TRUE))

RemoveCompletes ==
  \E i \in TasksOf("remove") :
    /\ tasks[i].name \in Names(qmd.store)
    /\ Commit(RemoveDone(World, i, TRUE))

RefreshCompletes ==
  \E i \in TasksOf("refresh") : Commit(RefreshDone(World, i, TRUE))

EmbedCompletes ==
  \E i \in TasksOf("embed") : Commit(EmbedDone(World, i, TRUE))

StatusCompletes ==
  \E i \in TasksOf("status"), blocked \in BOOLEAN :
    Commit(StatusDone(World, i, TRUE, blocked))

\* The output of `qmd status` as far as performSearch reads it: the numbers
\* after "Vectors:" and "Pending:", or no such line; parseStatus,
\* mcp-client.ts:39-68.
NoLine == 0 - 1
StatusOutputs == [vectors : {NoLine, 0, 2}, pending : {NoLine, 0, 1}]
ParseStatus(output) ==
  [needsEmbedding |-> IF output.pending = NoLine THEN 0 ELSE output.pending,
   hasVectorIndex |->
     (IF output.vectors = NoLine THEN 0 ELSE output.vectors) > 0]
\* files.ts:301
NoEmbeddings(status) == status.needsEmbedding > 0 /\ ~status.hasVectorIndex

\* The status check answers, and the embeddings are there (are not).
StatusPasses ==
  \E i \in TasksOf("status"), output \in StatusOutputs :
    /\ ~NoEmbeddings(ParseStatus(output))
    /\ Commit(StatusDone(World, i, TRUE, NoEmbeddings(ParseStatus(output))))
StatusBlocks ==
  \E i \in TasksOf("status"), output \in StatusOutputs :
    /\ NoEmbeddings(ParseStatus(output))
    /\ Commit(StatusDone(World, i, TRUE, NoEmbeddings(ParseStatus(output))))

\* What the tool answers each command with while the index stays as it is:
\* the three kinds of search rank differently.
AnswerOf(cmd) ==
  CASE cmd = "search" -> <<"n1", "n2">>
    [] cmd = "vsearch" -> <<"n1">>
    [] cmd = "query" -> <<>>
SearchAnswers ==
  \E i \in TasksOf("search") :
    /\ tasks[i].collection \in {Undefined, <<"a">>}
    /\ Commit(SearchDone(World, i, TRUE, AnswerOf(tasks[i].cmd)))

SearchCompletes ==
  \E i \in TasksOf("search"), res \in ResultLists :
    /\ (res # <<>>) => (tasks[i].collection \in {Undefined, <<"a">>})
    /\ Commit(SearchDone(World, i, TRUE, res))

LoadCompletes ==
  \E i \in TasksOf("load") :
    Commit(LoadDone(World, i, TRUE, HasFrontmatter(tasks[i].file)))

OpenInEditorResolves ==
  \E i \in TasksOf("openInEditor"), found \in BOOLEAN :
    Commit(OpenInEditorDone(World, i, found))

EditorExits == \E i \in TasksOf("editor") : Commit(EditorExit(World, i))

OpenPreviewResolves ==
  \E i \in TasksOf("openPreview") :
    Commit(OpenPreviewDone(World, i, "found", TRUE))

(* Actions: awaited operations failing (the qmd command exits non-zero, the *)
(* MCP request or the file system call throws)                             *)

StartFails == \E i \in TasksOf("start") : Commit(StartDone(World, i, FALSE))

AddFails == \E i \in TasksOf("add") : Commit(AddDone(World, i, FALSE))

RenameFails == \E i \in TasksOf("rename") : Commit(RenameDone(World, i, FALSE))

RemoveFails == \E i \in TasksOf("remove") : Commit(RemoveDone(World, i, FALSE))

RefreshFails ==
  \E i \in TasksOf("refresh") : Commit(RefreshDone(World, i, FALSE))

EmbedFails == \E i \in TasksOf("embed") : Commit(EmbedDone(World, i, FALSE))

StatusFails ==
  \E i \in TasksOf("status") : Commit(StatusDone(World, i, FALSE, FALSE))

SearchFails ==
  \E i \in TasksOf("search") : Commit(SearchDone(World, i, FALSE, <<>>))

LoadFails == \E i \in TasksOf("load") : Commit(LoadDone(World, i, FALSE, FALSE))

\* The file is gone, existsSync throws, or the browser cannot be spawned.
OpenPreviewFails ==
  \E i \in TasksOf("openPreview"), outcome \in ResolveOutcomes,
     chrome \in BOOLEAN :
    /\ outcome # "found" \/ ~chrome
    /\ Commit(OpenPreviewDone(World, i, outcome, chrome))

(* Actions: the file system, the clock and the browser *)

\* Timeouts that are due run before anything else happens.
Save == \E d \in Docs : DueTimers(World) = {} /\ Commit(FileSaved(World, d))

DebounceFires == \E k \in DueTimers(World) : Commit(DebounceFired(World, k))

PageLoads ==
  \E i \in 1..Len(browser) :
    browser[i].file = "loading" /\ Commit(PageLoaded(World, i))

PagePolls == \E i \in DuePolls(World) : Commit(PagePolled(World, i))

\* A client asks the running server for a path that the URL parser does
\* not turn into "/".
StaticRequest ==
  \E raw \in RequestPaths :
    /\ app.previewServer
    /\ UrlPathname(raw) # <<>>
    /\ Commit([World EXCEPT !.obs.response = ServeStatic(World, raw)])

\* index.ts:8 calls loadConfig().  For the record: the file it found, what
\* it returned and the file it left.
LoadsConfig ==
  /\ Len(obs.configLoads) < MaxLoads
  /\ Commit([World EXCEPT
               !.fs.options = LoadConfig(fs.options).after,
               !.obs.configLoads =
                  Append(@, [before |-> fs.options,
                             threw |-> LoadConfig(fs.options).threw,
                             config |-> LoadConfig(fs.options).config,
                             after |-> LoadConfig(fs.options).after])])

\* A call of listCollections() on the output of the tool and the qmd
\* config.  For the record: what it returned.
ListsCollections ==
  /\ obs.listed = <<>>
  /\ Commit([World EXCEPT
               !.obs.listed = <<ListCollections(qmd.output, qmd.config)>>])

Tick ==
  /\ DueTimers(World) = {}
  /\ DuePolls(World) = {}
  /\ \/ PendingTimers(World) # {}
     \/ LivePages(World) # {}
     \/ obs.sinceEvent < DebounceMs
  /\ Commit(Elapse(World))

---------------------------------------------------------------------------
(* Specifications.  The program's state is large (every view keeps its     *)
(* texts and selections while another view is shown), so each              *)
(* specification follows the user through one part of the program: the     *)
(* keys they press there and the operations those keys can start.  The     *)
(* specifications that begin in the document view begin in DocumentOpened, *)
(* the state Spec reaches by the key presses listed there.                 *)

\* Browsing: the sidebar, the search view and its modes, opening documents.
Next ==
  \/ KeyCtrlT \/ KeyEscape \/ KeyTab \/ KeySlash \/ KeyS \/ KeyJ \/ KeyK
  \/ KeyReturn \/ KeyU \/ KeyBackspace
  \/ StartCompletes \/ StatusCompletes \/ SearchCompletes \/ LoadCompletes
  \/ LoadFails

Spec == Init /\ [][Next]_vars

\* The collection shortcuts, from the document view and the views Esc leads
\* back to.
NextShortcuts ==
  \/ KeyEscape \/ KeyTab \/ KeyJ \/ KeyA \/ KeyD \/ KeyR \/ KeyE
  \/ EmbedCompletes \/ OpenInEditorResolves \/ EditorExits

SpecShortcuts == InitDocument /\ [][NextShortcuts]_vars

\* The add and rename forms: typing, moving between fields, submitting.
NextForms ==
  \/ KeyA \/ KeyR \/ KeyJ \/ KeySpace \/ KeyReturn \/ KeyTab
  \/ StartCompletes \/ AddCompletes \/ RenameCompletes \/ RefreshCompletes
  \/ AddFails \/ RenameFails

SpecForms == Init /\ [][NextForms]_vars

\* The external operations failing: the initial load, the status check and
\* the search, embed, delete and the refresh after it.
NextFailures ==
  \/ KeySlash \/ KeyCtrlT \/ KeyU \/ KeyReturn \/ KeyJ \/ KeyD \/ KeyE
  \/ StartCompletes \/ StartFails \/ StatusCompletes \/ StatusFails
  \/ SearchCompletes \/ SearchFails \/ EmbedFails
  \/ RemoveCompletes \/ RemoveFails \/ RefreshCompletes \/ RefreshFails

SpecFailures == Init /\ [][NextFailures]_vars

\* The live preview of the open document: p and q, the editor saving files,
\* the debounce timeouts, the preview pages polling, time passing.
NextPreview ==
  \/ KeyP \/ KeyQ \/ OpenPreviewResolves \/ OpenPreviewFails
  \/ Save \/ DebounceFires \/ PageLoads \/ PagePolls \/ Tick

SpecPreview == InitDocument /\ [][NextPreview]_vars

\* The document view with its preview: leaving it with Esc, opening another
\* document from the results, previewing one after the other, quitting.
NextDocument ==
  \/ KeyP \/ KeyEscape \/ KeyJ \/ KeyReturn \/ KeyQ
  \/ LoadCompletes \/ OpenPreviewResolves \/ OpenPreviewFails \/ PageLoads

SpecDocument == InitDocument /\ [][NextDocument]_vars

\* Every view of the main panel and the keys that lead from one to another:
\* from the first view and from an open document, through the search view,
\* the three management views and the preview, to quitting.
NextViews ==
  \/ KeyQ \/ KeyEscape \/ KeyTab \/ KeyJ \/ KeyA \/ KeyD \/ KeyR \/ KeyP
  \/ StartCompletes \/ OpenPreviewResolves

\* The preview server and the requests for static files it answers.
NextAssets ==
  \/ KeyP \/ KeyQ \/ OpenPreviewResolves \/ OpenPreviewFails \/ StaticRequest

SpecAssets == InitDocument /\ [][NextAssets]_vars

\* loadConfig called on the options files there may be, several times in a
\* row.
NextConfig == LoadsConfig

SpecConfig == InitConfig /\ [][NextConfig]_vars

\* listCollections on its own, from every output and qmd config.
NextList == ListsCollections
SpecList == InitList /\ [][NextList]_vars

\* Every way of changing what the main panel shows, from the document view:
\* into and out of the search, the document and the three management views.
NextPanel ==
  \/ KeySlash \/ KeyEscape \/ KeyJ \/ KeyReturn \/ KeyA \/ KeyD \/ KeyR
  \/ SearchCompletes \/ LoadCompletes

SpecPanel == InitDocument /\ [][NextPanel]_vars

\* Searches in the three modes, with the status check answering either way
\* and Ctrl+T pressed at any time.
NextEmbeddings ==
  \/ KeySlash \/ KeyS \/ KeyCtrlT \/ KeyReturn \/ KeyBackspace
  \/ KeyEscape \/ KeyTab
  \/ StartCompletes \/ StatusPasses \/ StatusBlocks \/ SearchCompletes

SpecEmbeddings == Init /\ [][NextEmbeddings]_vars

\* Searches submitted while earlier ones are in flight, the tool answering
\* in any order.
NextOverlap ==
  \/ KeyReturn \/ KeyCtrlT \/ KeyTab \/ StatusPasses \/ SearchAnswers

SpecOverlap == InitOverlap /\ [][NextOverlap]_vars

\* A delete or rename command running while the user leaves its view and
\* goes on to the search or to another management view.
NextMovedOn ==
  \/ KeyJ \/ KeyD \/ KeyR \/ KeySpace \/ KeyReturn \/ KeyEscape \/ KeySlash
  \/ StartCompletes \/ RemoveCompletes \/ RenameCompletes
  \/ RefreshCompletes

SpecMovedOn == Init /\ [][NextMovedOn]_vars

\* Collections added, renamed and deleted, with the fetches of the list
\* succeeding or failing.
NextCollections ==
  \/ KeyA \/ KeyR \/ KeyD \/ KeyJ \/ KeyReturn
  \/ StartCompletes \/ StartFails
  \/ AddCompletes \/ RenameCompletes \/ RemoveCompletes
  \/ RefreshCompletes \/ RefreshFails

SpecCollections == Init /\ [][NextCollections]_vars

InitViews == Init \/ InitDocument

SpecViews == InitViews /\ [][NextViews]_vars

\* Deleting a collection: d, the confirmation view, Yes or Cancel or Esc,
\* the removal and the refresh after it.
NextDelete ==
  \/ KeyD \/ KeyR \/ KeyJ \/ KeyReturn \/ KeyEscape
  \/ StartCompletes \/ RemoveCompletes \/ RemoveFails \/ RefreshCompletes

SpecDelete == Init /\ [][NextDelete]_vars

---------------------------------------------------------------------------
(* The live preview (SpecPreview) *)

\* A page that will not reload by itself: it has taken the server's current
\* version as its own, and no debounce timeout is left to change it.
Settled(i) ==
  /\ app.previewWatcher # 0
  /\ app.previewServer
  /\ PendingTimers(World) = {}
  /\ browser[i].lastVersion = app.previewVersion

\* C1: the preview page reloads after any save of the previewed file: once
\* the saves have stopped and the page has settled, it shows the file as
\* last saved.
PageShowsLatestContent ==
  \A i \in LivePages(World) :
    Settled(i) => browser[i].content = fs.saves[browser[i].file]

\* C2: a burst of change events for the previewed file (gaps under 100 ms)
\* increments previewVersion exactly once: the version never runs ahead of
\* the number of bursts, and equals it once no timeout is pending.
OneIncrementPerBurst ==
  /\ app.previewVersion <= obs.bursts
  /\ PendingTimers(World) = {} => app.previewVersion = obs.bursts

\* C3: once q has been handled the watcher is closed and the server is
\* stopped, and they stay so, whatever was started before.
NothingOpenAfterQuit ==
  renderer.destroyed => app.previewWatcher = 0 /\ ~app.previewServer

---------------------------------------------------------------------------
(* Error handling (SpecFailures) *)

\* C4: every failure of an external operation started from the UI is caught
\* and shown as a status message: none is swallowed without a message, none
\* is left as an unhandled rejection.
EveryFailureIsReported == obs.swallowed = {} /\ obs.unhandled = {}

---------------------------------------------------------------------------
(* The forms (SpecForms) *)

AddFormFocused ==
  /\ app.state = "add-collection"
  /\ renderer.focused \in {"add-path-input", "add-name-input",
                           "add-pattern-input"}
  /\ ~addCollectionView.completionVisible

RenameFormFocused ==
  app.state = "rename-collection" /\ renderer.focused = "rename-new-input"

NoWhitespace(s) == \A k \in 1..Len(s) : s[k] # " "

\* C5: the forms reject fields that are empty once trimmed.  Enter in the add
\* form starts `qmd collection add` (with the trimmed path and name) only
\* when both are non-empty; Enter in the rename form starts the rename (of
\* the collection the form shows, to the trimmed name) only when the new
\* name is non-empty.  Otherwise nothing is started, the form stays and says
\* what is required.
FormsRejectEmptyFields ==
  [][KeyReturn =>
      /\ AddFormFocused =>
           LET path == Trim(addCollectionView.pathInput)
               name == Trim(addCollectionView.nameInput)
           IN IF path # <<>> /\ name # <<>>
                THEN /\ Len(tasks') = Len(tasks) + 1
                     /\ tasks'[Len(tasks')].kind = "add"
                     /\ tasks'[Len(tasks')].path = path
                     /\ tasks'[Len(tasks')].name = name
                     /\ NoWhitespace(<<Head(path), path[Len(path)],
                                       Head(name), name[Len(name)]>>)
                ELSE /\ tasks' = tasks
                     /\ qmd' = qmd
                     /\ app'.state = "add-collection"
                     /\ addCollectionView'.statusText =
                          IF path = <<>> THEN "Path is required."
                                         ELSE "Name is required."
      /\ RenameFormFocused =>
           LET newName == Trim(renameCollectionView.newNameInput)
           IN IF newName # <<>>
                THEN /\ Len(tasks') = Len(tasks) + 1
                     /\ tasks'[Len(tasks')].kind = "rename"
                     /\ tasks'[Len(tasks')].oldName =
                          renameCollectionView.currentNameText
                     /\ tasks'[Len(tasks')].newName = newName
                     /\ NoWhitespace(<<Head(newName), newName[Len(newName)]>>)
                ELSE /\ tasks' = tasks
                     /\ qmd' = qmd
                     /\ app'.state = "rename-collection"
                     /\ renameCollectionView'.statusText = "Name is required."
    ]_vars

\* C5, its case: the add form has refused a name of whitespace only, with
\* a path given, and has started nothing.
FormRefusedBlankName ==
  /\ app.state = "add-collection"
  /\ addCollectionView.statusText = "Name is required."
  /\ addCollectionView.pathInput # <<>>
  /\ addCollectionView.nameInput = <<" ">>
  /\ tasks = <<>>

---------------------------------------------------------------------------
(* The keyboard (Spec, SpecShortcuts) *)

\* C6: pressing u with the sidebar focused runs `qmd update`: the step that
\* handles the key starts the command.
UpdateKeyRunsUpdate ==
  [][(~obs.updateAsked /\ obs'.updateAsked) =>
       \E i \in 1..Len(tasks') : tasks'[i].kind = "update"]_vars

EmbedTasks(ts) == {i \in 1..Len(ts) : ts[i].kind = "embed"}

\* C7: the collection shortcuts a, d, r and e act (open a management view,
\* start `qmd embed`) only while the sidebar list holds the keyboard focus.
ShortcutsNeedSidebarFocus ==
  [][(\/ app'.state \in ManagementStates /\ app.state \notin ManagementStates
      \/ Cardinality(EmbedTasks(tasks')) > Cardinality(EmbedTasks(tasks)))
       => renderer.focused \in SidebarWidgets]_vars

\* C8: in the collections, detail and document views Tab alternates
\* focusArea, and after it the focused widget is the sidebar's exactly when
\* focusArea is "sidebar".
TabMovesFocusWithArea ==
  [][(KeyTab /\ app.state \in {"collections", "detail", "document"}) =>
       /\ app'.focusArea # app.focusArea
       /\ (renderer'.focused \in SidebarWidgets) <=> (app'.focusArea = "sidebar")
    ]_vars

\* The name of the sidebar's current selection, as enterSearch reads it.
SidebarSelection ==
  LET col == GetSelectedCollection(World)
  IN IF col = <<>> THEN Undefined ELSE col[1].name

\* C9: whenever the search view is shown, its scope is the sidebar's current
\* selection.
SearchScopeFollowsSidebar ==
  app.state = "search" => searchView.selectedCollection = SidebarSelection

\* C10: Ctrl+T in the search view moves to the next of the three modes
\* (Search, Vector, Query, Search ...), whichever of the input and the
\* results list is focused; three presses restore the mode and its label;
\* outside the search view no step changes the mode.
CtrlTCyclesModes ==
  [][/\ KeyCtrlT =>
          searchView'.modeIndex =
            IF app.state = "search" THEN (searchView.modeIndex + 1) % 3
                                    ELSE searchView.modeIndex
     /\ app.state # "search" => searchView'.modeIndex = searchView.modeIndex
     /\ CycleMode(CycleMode(CycleMode(World))).searchView = searchView
    ]_vars

\* C10, its case: the mode has been cycled twice and the results list is
\* focused.
QueryModeWithResultsFocused ==
  /\ app.state = "search"
  /\ searchView.modeIndex = 2
  /\ searchView.label.mode = "Query"
  /\ renderer.focused = "search-results"

---------------------------------------------------------------------------
(* Leaving the search view and the document view (Spec, SpecDocument) *)

\* C11: Esc in the search view, whichever of the input and the results list
\* is focused, leads to state "detail" with the detail view in the main
\* panel, the sidebar list focused and focusArea = "sidebar".
EscLeavesSearch ==
  [][(KeyEscape /\ app.state = "search") =>
       /\ app'.state = "detail"
       /\ renderer'.mainChildren = {"detail-container"}
       /\ renderer'.focused = "collections-select"
       /\ app'.focusArea = "sidebar"]_vars

\* C11, its case: the search was entered from the first view, it has listed
\* results, and Esc has led back to the detail view (leaveSearch leaves
\* previousState as enterSearch set it).
LeftSearchWithResults ==
  /\ app.state = "detail"
  /\ app.previousState = "collections"
  /\ searchView.options # <<>>
  /\ renderer.mainChildren = {"detail-container"}
  /\ renderer.focused = "collections-select"

\* C12: Esc in the document view closes the preview watcher and goes back
\* to where the document was opened from: to the search view with the
\* results list focused if it was opened from the search view, otherwise to
\* the detail view with the sidebar focused.
EscLeavesDocument ==
  [][(KeyEscape /\ app.state = "document") =>
       /\ app'.previewWatcher = 0
       /\ IF obs.openedFrom = "search"
            THEN /\ app'.state = "search"
                 /\ renderer'.mainChildren = {"search-container"}
                 /\ renderer'.focused = "search-results"
            ELSE /\ app'.state = "detail"
                 /\ renderer'.mainChildren = {"detail-container"}
                 /\ renderer'.focused = "collections-select"
                 /\ app'.focusArea = "sidebar"]_vars

\* C12, its case: a preview was watching the document and Esc has led back
\* to the results list, with no watcher left open.
LeftDocumentWithPreview ==
  /\ app.state = "search"
  /\ renderer.focused = "search-results"
  /\ obs.openedFrom = "search"
  /\ watch # <<>>
  /\ app.previewWatcher = 0
  /\ ~renderer.destroyed

---------------------------------------------------------------------------
(* The views and the collection shortcuts (SpecViews, SpecDelete) *)

RemoveTasks(ts) == {i \in 1..Len(ts) : ts[i].kind = "remove"}

\* The option the confirmation select has selected.
ConfirmSelection == ConfirmOptions[confirmDeleteView.selectedIndex + 1]

\* C14: `qmd collection remove <name>` is started only by Enter on "Yes,
\* delete" in the confirmation view, for the collection that view names; the
\* view names the collection that was selected in the sidebar when d opened
\* it, and keeps naming it; Enter on "Cancel" and Esc start no removal and
\* lead back to the detail view.
RemovalNeedsConfirmation ==
  [][/\ Cardinality(RemoveTasks(tasks')) > Cardinality(RemoveTasks(tasks))
        => /\ KeyReturn
           /\ app.state = "delete-collection"
           /\ renderer.focused = "confirm-delete-select"
           /\ ConfirmSelection = "yes"
           /\ confirmDeleteView.currentCollection # <<>>
           /\ \A i \in RemoveTasks(tasks') :
                tasks'[i].name = confirmDeleteView.currentCollection[1].name
     /\ (app'.state = "delete-collection" /\ app.state # "delete-collection")
        => /\ KeyD
           /\ SidebarSelection # Undefined
           /\ confirmDeleteView'.currentCollection # <<>>
           /\ confirmDeleteView'.currentCollection[1].name = SidebarSelection
     /\ confirmDeleteView'.currentCollection # confirmDeleteView.currentCollection
        => (app'.state = "delete-collection" /\ app.state # "delete-collection")
     /\ (/\ app.state = "delete-collection"
         /\ KeyEscape \/ (KeyReturn /\ ConfirmSelection = "cancel"))
        => /\ Cardinality(RemoveTasks(tasks')) = Cardinality(RemoveTasks(tasks))
           /\ app'.state = "detail"
           /\ renderer'.mainChildren = {"detail-container"}
    ]_vars

\* C14, its case: d was pressed on collection a, "Yes, delete" was chosen,
\* and the removal of a is running.
RemovalOfSelectedStarted ==
  /\ app.state = "delete-collection"
  /\ SidebarSelection = <<"a">>
  /\ ConfirmSelection = "yes"
  /\ \E i \in RemoveTasks(tasks) : tasks[i].name = <<"a">>

\* The key reaches the collection shortcuts of the keypress listener
\* (app.ts:329-351): no view before them takes it, and focusArea is
\* "sidebar".
ShortcutsReached ==
  /\ app.state \notin ManagementStates
  /\ ~(app.state = "search" /\ renderer.focused = "search-input")
  /\ app.focusArea = "sidebar"

\* C15: rename and delete need a concrete collection.  With the sidebar on
\* "All" (or on nothing, before the collections are listed) r and d leave
\* state, previousState, the main panel's content and title, the focus and
\* the footer as they are; with a collection selected r enters
\* "rename-collection" and d "delete-collection", the view shown naming that
\* collection.
RenameDeleteNeedCollection ==
  [][((KeyR \/ KeyD) /\ ShortcutsReached) =>
       IF SidebarSelection = Undefined
         THEN /\ app' = app
              /\ renderer' = renderer
              /\ detailView' = detailView
              /\ renameCollectionView' = renameCollectionView
              /\ confirmDeleteView' = confirmDeleteView
         ELSE /\ app'.previousState = app.state
              /\ \/ /\ KeyR
                    /\ app'.state = "rename-collection"
                    /\ renderer'.mainChildren = {"rename-collection-container"}
                    /\ renderer'.focused = "rename-new-input"
                    /\ renameCollectionView'.currentNameText = SidebarSelection
                 \/ /\ KeyD
                    /\ app'.state = "delete-collection"
                    /\ renderer'.mainChildren = {"confirm-delete-container"}
                    /\ renderer'.focused = "confirm-delete-select"
                    /\ confirmDeleteView'.messageText = SidebarSelection
    ]_vars

\* C15, its case: r was pressed on collection a and the rename view shows
\* its name.
RenameViewNamesSelected ==
  /\ app.state = "rename-collection"
  /\ SidebarSelection = <<"a">>
  /\ renameCollectionView.currentNameText = <<"a">>
  /\ renderer.mainChildren = {"rename-collection-container"}

---------------------------------------------------------------------------
(* The preview server (SpecAssets, SpecDocument) *)

\* path lies inside directory dir.
IsInside(path, dir) ==
  Len(path) > Len(dir) /\ SubSeq(path, 1, Len(dir)) = dir

\* C16: for a request path other than "/" and "/version" the server
\* answers with a file's content only if the file lies inside the directory
\* of the previewed document, and with 404 otherwise.
StaticFilesStayInSourceDir ==
  obs.response.status = 200 =>
    IsInside(obs.response.file, DirPath(app.previewBaseDir))

\* The file of the most recent preview request that succeeded.
LastPreviewed == watch[Len(watch)].watchedName

---------------------------------------------------------------------------
(* The loaders (SpecConfig, SpecList) *)

\* The members an options file holds, as written in it.
MembersIn(file) == {file.text[i] : i \in {j \in 1..Len(file.text) :
                                             file.text[j].t = "member"}}

\* C18: loadConfig defaults to port 8181 and is stable.  With no options
\* file it writes one holding the defaults and returns mcpPort = 8181; with
\* a file it returns the file's keys with the file's values and the
\* default for every key the file lacks, and leaves the file alone; a call
\* right after another returns what the first returned and does not change
\* the file.
ConfigLoadingIsStable ==
  \A i \in 1..Len(obs.configLoads) :
    LET l == obs.configLoads[i]
    IN /\ ~l.before.exists =>
            /\ ~l.threw
            /\ l.config = [mcpPort |-> 8181]
            /\ l.after.exists
            /\ MembersIn(l.after) = {Token("member", "mcpPort", 8181)}
       /\ (l.before.exists /\ ~l.threw) =>
            /\ l.after = l.before
            /\ \A m \in MembersIn(l.before) :
                 m.k \in DOMAIN l.config /\ l.config[m.k] = m.v
            /\ \A k \in DOMAIN l.config :
                 \/ \E m \in MembersIn(l.before) : m.k = k
                 \/ k = "mcpPort" /\ l.config[k] = 8181
            /\ "mcpPort" \in DOMAIN l.config
       /\ l.threw => l.after = l.before
       /\ i > 1 =>
            /\ l.threw = obs.configLoads[i - 1].threw
            /\ l.config = obs.configLoads[i - 1].config
            /\ l.after = l.before
            /\ l.before = obs.configLoads[i - 1].after

\* C18, its case: there was no options file, loadConfig was called twice,
\* and the second call returned the defaults from the file the first wrote.
ConfigCreatedThenReloaded ==
  /\ Len(obs.configLoads) = 2
  /\ ~obs.configLoads[1].before.exists
  /\ obs.configLoads[2].before.exists
  /\ obs.configLoads[2].config = [mcpPort |-> 8181]
  /\ fs.options = obs.configLoads[1].after

\* The lines of the output that have the form "<name> (qmd://<id>/)", the
\* lines that belong to the block such a line starts, and the first line of
\* the block that gives a field.
IsHeaderLine(l) ==
  ~l.indent /\ Len(l.words) = 2 /\ l.words[2].kind = "uri"
HeaderLines(output) == {i \in 1..Len(output) : IsHeaderLine(output[i])}
LinesOfBlock(output, i) ==
  {j \in i..Len(output) :
     \A k \in (i + 1)..j : output[k].indent \/ output[k].words = <<>>}
FieldLines(output, i, label) ==
  {j \in LinesOfBlock(output, i) :
     output[j].words # <<>> /\ output[j].words[1].text = label}
FieldGiven(output, i, label) ==
  output[CHOOSE j \in FieldLines(output, i, label) :
           \A k \in FieldLines(output, i, label) : j <= k].words
Listed == obs.listed[1]

\* C19: listCollections returns, in the order of the output, exactly one
\* Collection for each block whose first line has the form
\* "<name> (qmd://<id>/)" and none for any other block; its name is the
\* name of that line, its path is the path of the qmd config entry of that
\* name, or "" without one, and pattern, files and updated are what the
\* block's first Pattern:, Files: and Updated: lines give, or "**/*.md", 0
\* and "unknown" where the block has no such line.
ListsOneCollectionPerBlock ==
  obs.listed # <<>> =>
    /\ Len(Listed) = Cardinality(HeaderLines(qmd.output))
    /\ \A i \in HeaderLines(qmd.output) :
         LET c == Listed[Cardinality({h \in HeaderLines(qmd.output) : h <= i})]
             name == qmd.output[i].words[1].text
         IN /\ c.name = name
            /\ c.path = (IF name \in DOMAIN qmd.config
                           THEN qmd.config[name] ELSE "")
            /\ c.pattern =
                 (IF FieldLines(qmd.output, i, "Pattern:") = {}
                    THEN <<"**/*.md">>
                    ELSE <<FieldGiven(qmd.output, i, "Pattern:")[2].text>>)
            /\ c.files =
                 (IF FieldLines(qmd.output, i, "Files:") = {}
                    THEN 0
                    ELSE FieldGiven(qmd.output, i, "Files:")[2].n)
            /\ c.updated =
                 (IF FieldLines(qmd.output, i, "Updated:") = {}
                    THEN <<"unknown">>
                    ELSE Tail([k \in 1..Len(FieldGiven(qmd.output, i,
                                                       "Updated:")) |->
                                 FieldGiven(qmd.output, i,
                                            "Updated:")[k].text]))

\* C19, its case: the output starts with a block that is no collection,
\* two collections follow, the first with a Files: line and nothing else
\* and with an entry in the qmd config, the second without either.
ListedTwoAfterIntroduction ==
  /\ obs.listed # <<>>
  /\ Len(qmd.output) = 4
  /\ ~IsHeaderLine(qmd.output[1])
  /\ Len(Listed) = 2
  /\ Listed[1].files = 3
  /\ Listed[1].pattern = <<"**/*.md">>
  /\ Listed[1].path = PathOf[Listed[1].name]
  /\ Listed[2].updated = <<"unknown">>
  /\ Listed[2].path = ""

\* C20: in every state the main panel holds exactly one container, the one
\* of the current state: the detail view's in "collections" and "detail",
\* the search view's in "search", the document view's in "document", and
\* the add, rename and confirm-delete views' in the management states.
MainPanelShowsCurrentView ==
  /\ app.state \in {"collections", "detail"} =>
       renderer.mainChildren = {"detail-container"}
  /\ app.state = "search" => renderer.mainChildren = {"search-container"}
  /\ app.state = "document" => renderer.mainChildren = {"document-scroll"}
  /\ app.state = "add-collection" =>
       renderer.mainChildren = {"add-collection-container"}
  /\ app.state = "rename-collection" =>
       renderer.mainChildren = {"rename-collection-container"}
  /\ app.state = "delete-collection" =>
       renderer.mainChildren = {"confirm-delete-container"}
  /\ app.state \in {"collections", "detail", "search", "document"}
                     \cup ManagementStates

\* C20, its case: the rename view is shown after other views had been: the
\* state "detail" it was entered from is one that only leaving the search
\* or a management view sets.
RenameShownAfterOtherViews ==
  /\ app.state = "rename-collection"
  /\ app.previousState = "detail"
  /\ renderer.mainChildren = {"rename-collection-container"}

\* The searches sent to qmd by the step: the tasks of kind "search" of which
\* there is one more than before it.
SearchesLike(ts, t) ==
  {i \in 1..Len(ts) : /\ ts[i].kind = "search"
                      /\ ts[i].cmd = t.cmd
                      /\ ts[i].query = t.query
                      /\ ts[i].collection = t.collection}
SentBy(j) ==
  /\ j \in 1..Len(tasks')
  /\ tasks'[j].kind = "search"
  /\ Cardinality(SearchesLike(tasks', tasks'[j]))
       > Cardinality(SearchesLike(tasks, tasks'[j]))

\* C21: a vector search or an LLM query is sent to qmd only by the step in
\* which the status check of the same call of performSearch passes; and
\* when the check does not pass, the status line reads "No embeddings yet."
\* , the results and their list stay as they were and nothing is sent.
\* Ctrl+T is pressed at any time, also while the check is in flight.
EmbeddingsCheckedFirst ==
  [][/\ \A j \in 1..MaxSearches :
          (SentBy(j) /\ tasks'[j].cmd \in {"vsearch", "query"}) =>
            /\ StatusPasses
            /\ \E i \in TasksOf("status") : tasks[i].query = tasks'[j].query
     /\ StatusBlocks =>
          /\ searchView'.statusText = "No embeddings yet."
          /\ searchView'.results = searchView.results
          /\ searchView'.options = searchView.options
          /\ \A j \in 1..MaxSearches : ~SentBy(j)]_vars

\* C21, its case: the check failed for a search made after an earlier one
\* had listed results, and the results are still there.
BlockedWithEarlierResults ==
  /\ searchView.statusText = "No embeddings yet."
  /\ searchView.results # <<>>
  /\ searchView.options = searchView.results
  /\ tasks = <<>>

\* C22: once every search submitted has completed, the results and the
\* status line show the outcome of the one submitted last.  On the step:
\* when the search that finishes last is not the one submitted last (that
\* one has finished before it, and the view shows its outcome), it leaves
\* the results, their list and the status line as they are.
ResultsOfLastSubmitted ==
  [][\A i \in TasksOf("search") :
       (/\ tasks[i].superseded
        /\ Len(tasks) = 1
        /\ tasks' = <<>>
        /\ SearchAnswers)
       => /\ searchView'.results = searchView.results
          /\ searchView'.options = searchView.options
          /\ searchView'.statusText = searchView.statusText]_vars

\* The management view a command was started from.
ViewOfCommand(kind) ==
  CASE kind = "add" -> "add-collection"
    [] kind = "rename" -> "rename-collection"
    [] kind = "remove" -> "delete-collection"

\* C23: when an add, rename or delete command, or the fetch of the
\* collections that follows it, finishes while the program is not in the
\* management view the command was started from, the step leaves the
\* state, the content of the main panel and the focus as they are.
CompletionKeepsOtherViews ==
  [][\A i \in 1..Len(tasks) :
       (/\ \/ /\ tasks[i].kind \in {"add", "rename", "remove"}
              /\ app.state # ViewOfCommand(tasks[i].kind)
              /\ AddCompletes \/ RenameCompletes \/ RemoveCompletes
           \/ /\ tasks[i].kind = "refresh"
              /\ app.state # ViewOfCommand(tasks[i].after)
              /\ RefreshCompletes)
       => /\ app'.state = app.state
          /\ renderer'.mainChildren = renderer.mainChildren
          /\ renderer'.focused = renderer.focused]_vars

\* C24: in every state, the preview's file watcher is open only while the
\* document view is shown.
WatcherOnlyInDocumentView ==
  app.previewWatcher # 0 => app.state = "document"

\* The sum of the file counts of the first n collections of a list.
RECURSIVE FilesOfFirst(_, _)
FilesOfFirst(cols, n) ==
  IF n = 0 THEN 0 ELSE FilesOfFirst(cols, n - 1) + cols[n].files

\* The options of the sidebar for a list of collections: "All" with the
\* sum of the file counts, then one option per collection, in order.
OptionsShow(options, cols) ==
  /\ Len(options) = Len(cols) + 1
  /\ options[1] = [value |-> AllValue, files |-> FilesOfFirst(cols, Len(cols))]
  /\ \A k \in 1..Len(cols) :
       options[k + 1] = [value |-> cols[k].name, files |-> cols[k].files]

\* C25: App.collections and the list of the sidebar view are the same list
\* in every state; start and the fetch after a successful add, rename or
\* delete replace it by the list the tool holds at that moment, and the
\* sidebar options become "All (<sum of the file counts>)" and one option
\* per collection in the order of the list, and stay so; a fetch that
\* fails leaves both lists and the options as they were.
CollectionsReplacedAsAWhole ==
  /\ [](/\ collectionsView.collections = app.collections
        /\ \/ OptionsShow(collectionsView.options, app.collections)
           \/ collectionsView.options = <<>> /\ app.collections = <<>>)
  /\ [][/\ (StartCompletes \/ RefreshCompletes) =>
            /\ app'.collections = qmd.store
            /\ OptionsShow(collectionsView'.options, qmd.store)
        /\ (StartFails \/ RefreshFails) =>
            /\ app'.collections = app.collections
            /\ collectionsView'.collections = collectionsView.collections
            /\ collectionsView'.options = collectionsView.options]_vars

\* C25, its case: a collection has been added and the list fetched again;
\* the sidebar shows "All (3)" and the two collections.
ListFetchedAfterAdd ==
  /\ tasks = <<>>
  /\ Len(app.collections) = 2
  /\ app.collections = qmd.store
  /\ collectionsView.options[1].files = 3
  /\ Len(collectionsView.options) = 3
====
